---- MODULE Spec2Model ----
(***************************************************************************)
(* Two-party approval workflow of backend/services/contract_service.py.    *)
(* One contract, created by analyze_and_save, with its party records, its  *)
(* persisted status and attestation fields, and its audit trail.           *)
(*                                                                         *)
(* Spec   : requests run one after another, each handler in one            *)
(*          transaction that get_db commits or rolls back.                 *)
(* SpecTx : set_approval requests run concurrently, each in its own        *)
(*          session and transaction, under the engine's default isolation  *)
(*          (READ COMMITTED), interleaved at the awaits of the handler.    *)
(***************************************************************************)
EXTENDS Integers, Sequences, FiniteSets, TLC

VARIABLES parties, contract, events, now, last, settings, tx

vars == <<parties, contract, events, now, last, settings, tx>>

(* ------------------------------------------------------------------ *)
(* Bounds of the model                                                  *)
(* ------------------------------------------------------------------ *)
\* longest audit trail the model lets grow
MaxEvents == 13
\* number of concurrent requests of SpecTx
MaxRequests == 2
\* longest list of risks _calculate_risk_score is applied to in SpecScore
MaxScored == 4
\* longest list of risks the detector returns in SpecPipe
MaxRisks == 2
\* longest audit trail the model lets grow in SpecTrail
MaxTrail == 7

(* ------------------------------------------------------------------ *)
(* Values                                                               *)
(* ------------------------------------------------------------------ *)
\* Optional column values: NULL is the empty sequence, a value v is <<v>>.
None == <<>>
Some(v) == <<v>>

Users == {"u1", "u2", "u3"}
\* the uploader of the contract (Contract.user_id)
Owner == "u1"
Email(u) == IF u = "u1" THEN "u1@x" ELSE IF u = "u2" THEN "u2@x" ELSE "u3@x"
FullName(u) == IF u = "u3" THEN "" ELSE u
\* e-mail addresses a request may carry: the owner's, another user's, one of no user
Emails == {Email("u1"), Email("u2"), "nobody@x"}

FIRST_PARTY == "first_party"
SECOND_PARTY == "second_party"
PartyRole == {FIRST_PARTY, SECOND_PARTY}

PENDING == "pending"
APPROVED == "approved"
REJECTED == "rejected"
ApprovalStatus == {PENDING, APPROVED, REJECTED}

PENDING_REVIEW == "pending_review"
ContractStatus == {PENDING_REVIEW, "reviewed", "archived", APPROVED, REJECTED}

EventType == {"document_uploaded", "ai_analysis_completed", "translation_viewed",
              "first_party_approved", "first_party_rejected", "second_party_added",
              "second_party_removed", "second_party_approved", "second_party_rejected",
              "contract_finalized", "blockchain_verified"}

HTTP_200_OK == "200"
HTTP_400_BAD_REQUEST == "400"
HTTP_403_FORBIDDEN == "403"
HTTP_404_NOT_FOUND == "404"
ClientErrors == {HTTP_400_BAD_REQUEST, HTTP_403_FORBIDDEN, HTTP_404_NOT_FOUND}

\* the document of the one contract of the model
ContractId == "c1"
PdfData == "pdf"
Filename == "a.pdf"

(* ------------------------------------------------------------------ *)
(* Attestation: services/blockchain_service.py                          *)
(* ------------------------------------------------------------------ *)
\* deployments: the integration fully configured, and the default Settings
Configs == {[BLOCKCHAIN_ENABLED |-> TRUE, ETHEREUM_RPC_URL |-> "rpc",
             ETHEREUM_PRIVATE_KEY |-> "key", CONTRACT_REGISTRY_ADDRESS |-> "addr"],
            [BLOCKCHAIN_ENABLED |-> FALSE, ETHEREUM_RPC_URL |-> "",
             ETHEREUM_PRIVATE_KEY |-> "", CONTRACT_REGISTRY_ADDRESS |-> ""]}

\* mutant of is_enabled: only the feature flag is looked at
is_enabled_FlagOnly(cfg) == cfg.BLOCKCHAIN_ENABLED

is_enabled(cfg) ==
    /\ cfg.BLOCKCHAIN_ENABLED
    /\ cfg.ETHEREUM_RPC_URL # ""
    /\ cfg.ETHEREUM_PRIVATE_KEY # ""
    /\ cfg.CONTRACT_REGISTRY_ADDRESS # ""

\* metadata.items() of the map built by _generate_and_store_blockchain_hash,
\* in the insertion order of the dict literal (lines 832-836)
contract_metadata == <<<<"filename", Filename>>, <<"created_at", "t0">>, <<"user_id", Owner>>>>

\* str ordering of the three keys: "created_at" < "filename" < "user_id"
KeyRank(k) == IF k = "created_at" THEN 1 ELSE IF k = "filename" THEN 2 ELSE 3

\* insertion of one (key, value) pair into an ascending list of pairs
RECURSIVE insort(_, _)
insort(item, items) ==
    IF items = <<>> THEN <<item>>
    ELSE IF KeyRank(item[1]) <= KeyRank(Head(items)[1]) THEN <<item>> \o items
    ELSE <<Head(items)>> \o insort(item, Tail(items))

\* mutant of sorted: the items are hashed in the order the map yields them
sorted_AsGiven(items) == items

\* line 121: sorted(metadata.items()), ascending by key (the keys are distinct)
RECURSIVE sorted(_)
sorted(items) ==
    IF items = <<>> THEN <<>> ELSE insort(Head(items), sorted(Tail(items)))

\* the same map with its keys inserted in any order
MetadataOrders ==
    {[i \in 1..Len(contract_metadata) |-> contract_metadata[f[i]]] :
        f \in Permutations(1..Len(contract_metadata))}

\* the items as the hash sees them
HashMetadata == sorted(contract_metadata)

\* SHA-256 taken as collision free: the digest stands for its input
generate_document_hash(pdf_data, contract_id, metadata_items) ==
    <<"0x", pdf_data, contract_id, metadata_items>>

\* what the ledger does with one submission
LedgerOutcomes == {"confirmed", "reverted", "not_confirmed", "already_stored",
                   "contract_error", "error"}
\* transaction hashes the ledger may hand out
TxHashes == {"0xtx1", "0xtx2"}
\* the ledger's answer to one submission: its outcome and, when the
\* transaction is confirmed, the transaction's hash
LedgerReplies == [outcome : {"confirmed"}, tx : TxHashes]
                 \cup [outcome : LedgerOutcomes \ {"confirmed"}, tx : {""}]

\* no submission was made
NoReply == [outcome |-> "", tx |-> ""]

\* (success, transaction_hash, error_message)
store_hash_on_chain(cfg, reply) ==
    IF ~is_enabled(cfg) THEN <<FALSE, None, "Blockchain integration is disabled">>
    ELSE IF reply.outcome = "confirmed" THEN <<TRUE, Some(reply.tx), "">>
    ELSE IF reply.outcome = "reverted" THEN <<FALSE, None, "Transaction reverted">>
    ELSE IF reply.outcome = "not_confirmed"
    THEN <<FALSE, None, "Transaction not confirmed in time">>
    ELSE IF reply.outcome = "already_stored" THEN <<TRUE, None, "Hash already stored">>
    ELSE <<FALSE, None, reply.outcome>>

\* (document_hash, transaction_hash)
generate_and_store_blockchain_hash(cfg, reply) ==
    LET document_hash == generate_document_hash(PdfData, ContractId, HashMetadata)
    IN  IF is_enabled(cfg)
        THEN LET r == store_hash_on_chain(cfg, reply)
             IN  IF r[1] THEN <<document_hash, r[2]>> ELSE <<document_hash, None>>
        ELSE <<document_hash, None>>

(* ------------------------------------------------------------------ *)
(* Persistence helpers                                                  *)
(* ------------------------------------------------------------------ *)
\* the unit of work a handler reads and writes
Db(ps, c, es) == [parties |-> ps, contract |-> c, events |-> es]

\* rows of contract_parties the query of _get_user_party returns
get_user_party(ps, user_id) == {p \in ps : p.user_id = user_id}

\* mutant of PartyOfRole: the role is not part of the query
PartyOfRole_Any(ps, role) == ps

PartyOfRole(ps, role) == {p \in ps : p.role = role}

\* User row found by e-mail (users.email is unique)
UserByEmail(email) == {u \in Users : Email(u) = email}

\* mutant of log_event: the row written replaces the latest row of the trail
log_event_Overwrite(es, event_type, description, user_id, metadata) ==
    LET row == [event_type |-> event_type, description |-> description,
                user_id |-> user_id, event_metadata |-> metadata]
    IN  IF es = <<>> THEN <<row>> ELSE [es EXCEPT ![Len(es)] = row]

log_event(es, event_type, description, user_id, metadata) ==
    Append(es, [event_type |-> event_type, description |-> description,
                user_id |-> user_id, event_metadata |-> metadata])

\* number of events of the given kinds in a trail
RECURSIVE CountEvents(_, _)
CountEvents(es, kinds) ==
    IF es = <<>> THEN 0
    ELSE (IF Head(es).event_type \in kinds THEN 1 ELSE 0) + CountEvents(Tail(es), kinds)

(* ------------------------------------------------------------------ *)
(* Handlers of ContractService.  Each takes the unit of work db it runs  *)
(* in and returns the HTTP status it ends with and the unit of work at   *)
(* that point; get_db commits it on 200 and rolls it back otherwise.     *)
(* ------------------------------------------------------------------ *)
\* utc is the last value datetime.utcnow() gave the handler (the value it was
\* started with when it never read the clock)
Raise(code, detail, db, utc) ==
    [status_code |-> code, detail |-> detail, db |-> db, utc |-> utc]
Return(db, utc) == [status_code |-> HTTP_200_OK, detail |-> "", db |-> db, utc |-> utc]

\* mutant of UniqueOk: the table has no unique constraint
UniqueOk_None(ps, row) == TRUE

\* uq_contract_user and uq_contract_role of contract_parties
UniqueOk(ps, row) ==
    /\ \A p \in ps : p.user_id # row.user_id
    /\ \A p \in ps : p.role # row.role

\* full_name or email
DisplayName(u) == IF FullName(u) # "" THEN FullName(u) ELSE Email(u)

\* line 473: the caller holds the first_party record
OwnerMayAdd(party) == party # {} /\ \A p \in party : p.role = FIRST_PARTY

\* mutant of SamePerson: the comparison with the caller is missing
SamePerson_Never(second_user, user_id) == FALSE

\* line 505: the user found by e-mail is the caller
SamePerson(second_user, user_id) == user_id \in second_user

add_second_party(db, user_id, second_party_email, t) ==
    LET party == get_user_party(db.parties, user_id)
        existing_second == PartyOfRole(db.parties, SECOND_PARTY)
        second_user == UserByEmail(second_party_email)
    IN  IF ~OwnerMayAdd(party)
        THEN Raise(HTTP_403_FORBIDDEN, "Only the contract owner can add a second party", db, t)
        ELSE IF existing_second # {}
        THEN Raise(HTTP_400_BAD_REQUEST, "Contract already has a second party", db, t)
        ELSE IF second_user = {}
        THEN Raise(HTTP_404_NOT_FOUND, "User with this email not found", db, t)
        ELSE IF SamePerson(second_user, user_id)
        THEN Raise(HTTP_400_BAD_REQUEST, "Cannot add yourself as second party", db, t)
        ELSE LET su == CHOOSE u \in second_user : TRUE
                 second_party == [user_id |-> su, role |-> SECOND_PARTY,
                                  approval_status |-> PENDING, approved_at |-> None]
             IN  IF ~UniqueOk(db.parties, second_party)
                 THEN Raise("500", "IntegrityError", db, t)
                 ELSE Return(Db(db.parties \cup {second_party}, db.contract,
                                log_event(db.events, "second_party_added",
                                          <<"Second party added: ", DisplayName(su)>>,
                                          Some(user_id),
                                          Some(<<Email(su), FullName(su)>>))), t)

\* overall_status computed by get_contract_parties
overall_status(ps) ==
    LET first == PartyOfRole(ps, FIRST_PARTY)
        second == ps \ first
    IN  IF second = {} THEN "awaiting_second_party"
        ELSE IF \E p \in ps : p.approval_status = REJECTED THEN "rejected"
        ELSE IF \A p \in ps : p.approval_status = APPROVED THEN "approved"
        ELSE "pending"

\* the party's own decision: pending -> approved | rejected
Decision(approved) == IF approved THEN APPROVED ELSE REJECTED

\* mutant of MaySubmit: the already-submitted check is missing
MaySubmit_Always(p) == TRUE

\* mutant of MaySubmit: only an approval is final, a refusal may be revised
MaySubmit_UnlessApproved(p) == p.approval_status # APPROVED

\* line 628: a party may submit only while its record is pending
MaySubmit(p) == p.approval_status = PENDING

\* mutant of ApprovalEventType: the last arm of the chain taken for every rejection
ApprovalEventType_Chain(role, approved) ==
    IF role = FIRST_PARTY /\ approved THEN "first_party_approved"
    ELSE IF role = SECOND_PARTY /\ approved THEN "second_party_approved"
    ELSE "second_party_rejected"

\* lines 639-644
ApprovalEventType(role, approved) ==
    IF role = FIRST_PARTY /\ approved THEN "first_party_approved"
    ELSE IF role = FIRST_PARTY /\ ~approved THEN "first_party_rejected"
    ELSE IF role = SECOND_PARTY /\ approved THEN "second_party_approved"
    ELSE "second_party_rejected"

\* mutant of BothApproved: one approval is taken for both
BothApproved_Either(first, second) ==
    \E p \in first \cup second : p.approval_status = APPROVED

\* lines 722-723: both parties have approved
BothApproved(first, second) == \A p \in first \cup second : p.approval_status = APPROVED

\* returns the unit of work, whether this call finalized the contract, and
\* the clock: finalized_at is one more reading of it
update_contract_status(db, t, cfg, reply) ==
    LET first == PartyOfRole(db.parties, FIRST_PARTY)
        second == db.parties \ first
    IN  IF second = {} THEN [db |-> db, finalized |-> FALSE, utc |-> t]
        ELSE IF \E p \in first \cup second : p.approval_status = REJECTED
        THEN [db |-> Db(db.parties, [db.contract EXCEPT !.status = REJECTED], db.events),
              finalized |-> FALSE, utc |-> t]
        ELSE IF BothApproved(first, second)
        THEN LET h == generate_and_store_blockchain_hash(cfg, reply)
             IN  [db |-> Db(db.parties,
                            [db.contract EXCEPT !.status = APPROVED,
                                                !.blockchain_hash = Some(h[1]),
                                                !.blockchain_tx_hash = h[2],
                                                !.finalized_at = Some(t + 1)],
                            db.events),
                  finalized |-> TRUE, utc |-> t + 1]
        ELSE [db |-> db, finalized |-> FALSE, utc |-> t]

\* mutant of LogFinalization: the two events written in the other order
LogFinalization_VerifiedFirst(db) ==
    LET c == db.contract
        e1 == log_event(db.events, "blockchain_verified",
                        IF c.blockchain_tx_hash # None
                        THEN <<"Contract hash stored on blockchain">>
                        ELSE <<"Contract hash generated (blockchain pending)">>,
                        None,
                        Some(<<c.blockchain_hash, c.blockchain_tx_hash>>))
    IN  log_event(e1, "contract_finalized",
                  <<"Contract finalized - both parties approved">>, None, None)

\* mutant of LogFinalization: the blockchain_verified event is not written
LogFinalization_NoVerified(db) ==
    log_event(db.events, "contract_finalized",
              <<"Contract finalized - both parties approved">>, None, None)

\* lines 659-683: the two events set_approval writes when
\* update_contract_status finalized
LogFinalization(db) ==
    LET c == db.contract
        e1 == log_event(db.events, "contract_finalized",
                        <<"Contract finalized - both parties approved">>, None, None)
    IN  log_event(e1, "blockchain_verified",
                  IF c.blockchain_tx_hash # None
                  THEN <<"Contract hash stored on blockchain">>
                  ELSE <<"Contract hash generated (blockchain pending)">>,
                  None,
                  Some(<<c.blockchain_hash, c.blockchain_tx_hash>>))

set_approval(db, user_id, approved, t, cfg, reply) ==
    LET party == get_user_party(db.parties, user_id)
    IN  IF party = {}
        THEN Raise(HTTP_403_FORBIDDEN, "Not authorized to approve this contract", db, t)
        ELSE LET p == CHOOSE q \in party : TRUE
             IN  IF ~MaySubmit(p)
                 THEN Raise(HTTP_400_BAD_REQUEST, "You have already submitted your approval", db, t)
                 ELSE LET p2 == [p EXCEPT !.approval_status = Decision(approved),
                                          !.approved_at = Some(t + 1)]
                          db2 == Db((db.parties \ {p}) \cup {p2}, db.contract,
                                    log_event(db.events, ApprovalEventType(p.role, approved),
                                              <<IF p.role = FIRST_PARTY THEN "First party"
                                                ELSE "Second party",
                                                IF approved THEN "approved" ELSE "rejected">>,
                                              Some(user_id), None))
                          u == update_contract_status(db2, t + 1, cfg, reply)
                      IN  IF u.finalized
                          THEN Return(Db(u.db.parties, u.db.contract, LogFinalization(u.db)),
                                      u.utc)
                          ELSE Return(u.db, u.utc)

\* mutant of ResetsOnRemoval: the removal resets nothing
ResetsOnRemoval_Never(c) == FALSE

\* mutant of ResetsOnRemoval: an approved contract is not reset
ResetsOnRemoval_RejectedOnly(c) == c.status = REJECTED

\* mutant of ResetsOnRemoval: a rejected contract is not reset
ResetsOnRemoval_ApprovedOnly(c) == c.status = APPROVED

\* lines 783-792: a contract that had reached approved/rejected starts over
ResetsOnRemoval(c) == c.status \in {APPROVED, REJECTED}

\* mutant of OwnerMayRemove: any party of the contract may remove
OwnerMayRemove_AnyParty(party) == party # {}

\* line 743: the caller holds the first_party record
OwnerMayRemove(party) == party # {} /\ \A p \in party : p.role = FIRST_PARTY

\* mutant of ResetApproval: the decision is withdrawn, its timestamp is kept
ResetApproval_KeepsTimestamp(party) == [party EXCEPT !.approval_status = PENDING]

\* lines 790-792: the first party starts over
ResetApproval(party) == [party EXCEPT !.approval_status = PENDING, !.approved_at = None]

remove_second_party(db, user_id, t) ==
    LET party == get_user_party(db.parties, user_id)
        second_party == PartyOfRole(db.parties, SECOND_PARTY)
    IN  IF ~OwnerMayRemove(party)
        THEN Raise(HTTP_403_FORBIDDEN, "Only the contract owner can remove the second party", db, t)
        ELSE IF second_party = {}
        THEN Raise(HTTP_404_NOT_FOUND, "No second party to remove", db, t)
        ELSE LET sp == CHOOSE q \in second_party : TRUE
                 fp == CHOOSE q \in party : TRUE
                 es == log_event(db.events, "second_party_removed",
                                 <<"Second party removed: ", DisplayName(sp.user_id)>>,
                                 Some(user_id), None)
                 ps == db.parties \ {sp}
             IN  IF ResetsOnRemoval(db.contract)
                 THEN Return(Db((ps \ {fp}) \cup {ResetApproval(fp)},
                                [db.contract EXCEPT !.status = PENDING_REVIEW], es), t)
                 ELSE Return(Db(ps, db.contract, es), t)

(* ------------------------------------------------------------------ *)
(* Spec: one request at a time                                          *)
(* ------------------------------------------------------------------ *)
NoContract == [status |-> "", blockchain_hash |-> None, blockchain_tx_hash |-> None,
               finalized_at |-> None]

\* the rows analyze_and_save commits for the upload
UploadedContract == [status |-> PENDING_REVIEW, blockchain_hash |-> None,
                     blockchain_tx_hash |-> None, finalized_at |-> None]
UploadedParties == {[user_id |-> Owner, role |-> FIRST_PARTY,
                     approval_status |-> PENDING, approved_at |-> None]}
UploadedEvents ==
    log_event(log_event(<<>>, "document_uploaded", <<"Document uploaded">>, Some(Owner),
                        Some(<<Filename>>)),
              "ai_analysis_completed", <<"AI simplification & risk scan completed">>,
              Some(Owner), Some(<<"1", "0", "safe">>))

\* What a request remembers of the request before it: nothing, unless that
\* was a successful set_approval; then its caller, its argument and whether
\* every party was pending before it.
NoPrior == [user_id |-> "", approved |-> FALSE, all_pending |-> FALSE]
Prior(c) ==
    IF c.op = "set_approval" /\ c.status_code = HTTP_200_OK
    THEN [user_id |-> c.user_id, approved |-> c.approved,
          all_pending |-> \A p \in c.pre.parties : p.approval_status = PENDING]
    ELSE NoPrior

\* The request just served: the endpoint, its caller and arguments, the
\* status it answered with, the database before it, and the request before.
Call(op, user_id, email, approved, r, pre, prior) ==
    [op |-> op, user_id |-> user_id, email |-> email, approved |-> approved,
     status_code |-> r.status_code, detail |-> r.detail, pre |-> pre, prior |-> prior]

Current == Db(parties, contract, events)

\* mutant of Commit: the session is committed whether the handler returned or raised
Commit_Always(r) ==
    /\ parties' = r.db.parties
    /\ contract' = r.db.contract
    /\ events' = r.db.events

\* mutant of Commit: a refused request leaves an event in the audit trail
Commit_LogsFailure(r) ==
    IF r.status_code = HTTP_200_OK
    THEN /\ parties' = r.db.parties
         /\ contract' = r.db.contract
         /\ events' = r.db.events
    ELSE /\ events' = log_event(events, "request_refused", <<r.detail>>, None, None)
         /\ UNCHANGED <<parties, contract>>

\* get_db: commit when the handler returned, rollback when it raised
Commit(r) ==
    IF r.status_code = HTTP_200_OK
    THEN /\ parties' = r.db.parties
         /\ contract' = r.db.contract
         /\ events' = r.db.events
    ELSE UNCHANGED <<parties, contract, events>>

\* the handler may run while the trail has room for the events of one call
Room == Len(events) + 3 <= MaxEvents

\* the requests of SpecTx, and a session that has not started
TxIds == 1..MaxRequests
NoRow == [user_id |-> "", role |-> "", approval_status |-> "", approved_at |-> None]
IdleTx == [pc |-> "idle", user_id |-> "", approved |-> FALSE, party |-> NoRow,
           wparty |-> NoRow, seen |-> {}, loaded |-> NoContract, wcontract |-> NoContract,
           wevents |-> <<>>, finalized |-> FALSE, status_code |-> "", detail |-> ""]

Init ==
    /\ parties = UploadedParties
    /\ contract = UploadedContract
    /\ events = UploadedEvents
    /\ now = 0
    /\ settings \in Configs
    /\ last = Call("analyze_and_save", Owner, "", FALSE,
                   Return(Db({}, NoContract, <<>>), 0), Db({}, NoContract, <<>>), NoPrior)
    /\ tx = [t \in TxIds |-> IdleTx]

AddSecondParty ==
    \E u \in Users, e \in Emails :
        LET r == add_second_party(Current, u, e, now)
        IN  /\ Room
            /\ Commit(r)
            /\ now' = r.utc
            /\ last' = Call("add_second_party", u, e, FALSE, r, Current, Prior(last))
            /\ UNCHANGED <<settings, tx>>

\* the ledger answers when set_approval submits to it: when the integration
\* is enabled and this call is the one that finalizes
RepliesTo(db, user_id, approved, cfg) ==
    IF /\ is_enabled(cfg)
       /\ CountEvents(set_approval(db, user_id, approved, 0, cfg, NoReply).db.events,
                      {"contract_finalized"}) > CountEvents(db.events, {"contract_finalized"})
    THEN LedgerReplies
    ELSE {NoReply}

SetApproval ==
    \E u \in Users, a \in BOOLEAN :
      \E reply \in RepliesTo(Current, u, a, settings) :
        LET r == set_approval(Current, u, a, now, settings, reply)
        IN  /\ Room
            /\ Commit(r)
            /\ now' = r.utc
            /\ last' = Call("set_approval", u, "", a, r, Current, Prior(last))
            /\ UNCHANGED <<settings, tx>>

RemoveSecondParty ==
    \E u \in Users :
        LET r == remove_second_party(Current, u, now)
        IN  /\ Room
            /\ Commit(r)
            /\ now' = r.utc
            /\ last' = Call("remove_second_party", u, "", FALSE, r, Current, Prior(last))
            /\ UNCHANGED <<settings, tx>>

Next == AddSecondParty \/ SetApproval \/ RemoveSecondParty

Spec == Init /\ [][Next]_vars

(* ------------------------------------------------------------------ *)
(* SpecTx: concurrent set_approval requests.  parties, contract and     *)
(* events hold what is committed; tx[t] holds the session of request t: *)
(* the objects it loaded and its uncommitted writes.  A statement sees  *)
(* what is committed when it runs plus the session's own writes; an     *)
(* object the session already holds is not refreshed by a later SELECT; *)
(* an UPDATE of a row another open transaction has written waits for    *)
(* that transaction to end and then applies to the row as committed.    *)
(* ------------------------------------------------------------------ *)
\* the contract with a second party, both parties pending
InvitedDb ==
    add_second_party(Db(UploadedParties, UploadedContract, UploadedEvents),
                     Owner, Email("u2"), 0).db

InitTx ==
    /\ parties = InvitedDb.parties
    /\ contract = InvitedDb.contract
    /\ events = InvitedDb.events
    /\ now = 0
    /\ settings \in Configs
    /\ last = Call("add_second_party", Owner, Email("u2"), FALSE,
                   Return(InvitedDb, 0),
                   Db(UploadedParties, UploadedContract, UploadedEvents), NoPrior)
    /\ tx = [t \in TxIds |-> IdleTx]

Open(t) == tx[t].pc \notin {"idle", "done"}
\* row locks: held from the UPDATE until the transaction ends
HoldsParty(t, user_id) ==
    Open(t) /\ tx[t].wparty # NoRow /\ tx[t].wparty.user_id = user_id
HoldsContract(t) == tx[t].pc = "written" /\ tx[t].wcontract # tx[t].loaded

\* lines 621-635: load the caller's party record, refuse, or set the decision
\* and the timestamp on the loaded object
TxBegin(t) ==
    \E u \in Users, a \in BOOLEAN :
        LET party == get_user_party(parties, u)
            p == CHOOSE q \in party : TRUE
        IN  /\ tx[t].pc = "idle"
            /\ IF party = {}
               THEN /\ tx' = [tx EXCEPT ![t] = [@ EXCEPT !.pc = "done", !.user_id = u,
                                   !.approved = a, !.status_code = HTTP_403_FORBIDDEN,
                                   !.detail = "Not authorized to approve this contract"]]
                    /\ now' = now
               ELSE IF ~MaySubmit(p)
               THEN /\ tx' = [tx EXCEPT ![t] = [@ EXCEPT !.pc = "done", !.user_id = u,
                                   !.approved = a, !.party = p,
                                   !.status_code = HTTP_400_BAD_REQUEST,
                                   !.detail = "You have already submitted your approval"]]
                    /\ now' = now
               ELSE /\ tx' = [tx EXCEPT ![t] = [@ EXCEPT !.pc = "loaded", !.user_id = u,
                                   !.approved = a,
                                   !.party = [p EXCEPT !.approval_status = Decision(a),
                                                       !.approved_at = Some(now + 1)]]]
                    /\ now' = now + 1
            /\ UNCHANGED <<parties, contract, events, last, settings>>

\* lines 636-653: flush the UPDATE of the party row, insert the approval event
TxFlushParty(t) ==
    /\ tx[t].pc = "loaded"
    /\ \A o \in TxIds \ {t} : ~HoldsParty(o, tx[t].user_id)
    /\ tx' = [tx EXCEPT ![t] = [@ EXCEPT !.pc = "flushed", !.wparty = tx[t].party,
                  !.wevents = log_event(<<>>,
                                  ApprovalEventType(tx[t].party.role, tx[t].approved),
                                  <<IF tx[t].party.role = FIRST_PARTY THEN "First party"
                                    ELSE "Second party",
                                    IF tx[t].approved THEN "approved" ELSE "rejected">>,
                                  Some(tx[t].user_id), None)]]
    /\ UNCHANGED <<parties, contract, events, now, last, settings>>

\* lines 693-704: SELECT the parties of the contract: the session's own
\* object for the caller's row, the committed rows for the others
TxReadParties(t) ==
    /\ tx[t].pc = "flushed"
    /\ tx' = [tx EXCEPT ![t] = [@ EXCEPT !.pc = "parties_read",
                  !.seen = {q \in parties : q.user_id # tx[t].user_id} \cup {tx[t].party}]]
    /\ UNCHANGED <<parties, contract, events, now, last, settings>>

\* lines 706-730: SELECT the contract, decide its status, attest when both
\* parties are seen approved
TxReadContract(t) ==
    \E reply \in IF /\ is_enabled(settings)
                    /\ update_contract_status(Db(tx[t].seen, contract, <<>>), now,
                                              settings, NoReply).finalized
                 THEN LedgerReplies ELSE {NoReply} :
        LET u == update_contract_status(Db(tx[t].seen, contract, <<>>), now, settings, reply)
        IN  /\ tx[t].pc = "parties_read"
            /\ tx' = [tx EXCEPT ![t] = [@ EXCEPT !.pc = "decided", !.loaded = contract,
                          !.wcontract = u.db.contract, !.finalized = u.finalized]]
            /\ now' = u.utc
            /\ UNCHANGED <<parties, contract, events, last, settings>>

\* lines 732 and 659-683: flush the UPDATE of the contract row (when a
\* column changed), insert the finalization events
TxFlushContract(t) ==
    /\ tx[t].pc = "decided"
    /\ tx[t].wcontract # tx[t].loaded => \A o \in TxIds \ {t} : ~HoldsContract(o)
    /\ tx' = [tx EXCEPT ![t] = [@ EXCEPT !.pc = "written",
                  !.wevents = IF tx[t].finalized
                              THEN LogFinalization(Db({}, tx[t].wcontract, @))
                              ELSE @]]
    /\ UNCHANGED <<parties, contract, events, now, last, settings>>

\* the columns of the contract row the session changed, over the row as committed
Merge(committed, loaded, written) ==
    [f \in DOMAIN committed |-> IF written[f] # loaded[f] THEN written[f] ELSE committed[f]]

\* get_db, line 26: the handler returned, the session commits
TxCommit(t) ==
    /\ tx[t].pc = "written"
    /\ parties' = {q \in parties : q.user_id # tx[t].user_id} \cup {tx[t].wparty}
    /\ contract' = Merge(contract, tx[t].loaded, tx[t].wcontract)
    /\ events' = events \o tx[t].wevents
    /\ tx' = [tx EXCEPT ![t] = [@ EXCEPT !.pc = "done", !.status_code = HTTP_200_OK]]
    /\ UNCHANGED <<now, last, settings>>

NextTx ==
    \E t \in TxIds :
        \/ TxBegin(t)
        \/ TxFlushParty(t)
        \/ TxReadParties(t)
        \/ TxReadContract(t)
        \/ TxFlushContract(t)
        \/ TxCommit(t)

SpecTx == InitTx /\ [][NextTx]_vars

(* ------------------------------------------------------------------ *)
(* SpecAdd: concurrent add_second_party requests on the uploaded        *)
(* contract, each in its own session.  A SELECT sees what is committed; *)
(* the INSERT of a row whose unique key another open transaction has    *)
(* inserted waits for that transaction to end; it fails with an         *)
(* IntegrityError when a committed row holds the key.                   *)
(* ------------------------------------------------------------------ *)
\* rows carry their primary key here: the request that inserted them (0: the upload)
WithId(row, id) ==
    [user_id |-> row.user_id, role |-> row.role, approval_status |-> row.approval_status,
     approved_at |-> row.approved_at, id |-> id]

IdleAdd == [pc |-> "idle", user_id |-> "", email |-> "", wparty |-> NoRow,
            wevents |-> <<>>, status_code |-> "", detail |-> ""]

\* e-mail addresses of the requests of SpecAdd
AddEmails == {Email(u) : u \in Users} \cup {"nobody@x"}

InitAdd ==
    /\ parties = {WithId(p, 0) : p \in UploadedParties}
    /\ contract = UploadedContract
    /\ events = UploadedEvents
    /\ now = 0
    /\ settings \in Configs
    /\ last = Call("analyze_and_save", Owner, "", FALSE,
                   Return(Db({}, NoContract, <<>>), 0), Db({}, NoContract, <<>>), NoPrior)
    /\ tx = [t \in TxIds |-> IdleAdd]

Refuse(t, code, detail) ==
    tx' = [tx EXCEPT ![t] = [@ EXCEPT !.pc = "done", !.status_code = code,
                                      !.detail = detail]]

\* lines 471-477: SELECT the caller's party record
AddBegin(t) ==
    \E u \in Users, e \in AddEmails :
        /\ tx[t].pc = "idle"
        /\ IF ~OwnerMayAdd(get_user_party(parties, u))
           THEN tx' = [tx EXCEPT ![t] = [@ EXCEPT !.pc = "done", !.user_id = u,
                         !.email = e, !.status_code = HTTP_403_FORBIDDEN,
                         !.detail = "Only the contract owner can add a second party"]]
           ELSE tx' = [tx EXCEPT ![t] = [@ EXCEPT !.pc = "authorized", !.user_id = u,
                                                  !.email = e]]
        /\ UNCHANGED <<parties, contract, events, now, last, settings>>

\* lines 479-509: SELECT the second party, SELECT the user by e-mail
AddLookup(t) ==
    LET second_user == UserByEmail(tx[t].email)
    IN  /\ tx[t].pc = "authorized"
        /\ IF PartyOfRole(parties, SECOND_PARTY) # {}
           THEN Refuse(t, HTTP_400_BAD_REQUEST, "Contract already has a second party")
           ELSE IF second_user = {}
           THEN Refuse(t, HTTP_404_NOT_FOUND, "User with this email not found")
           ELSE IF SamePerson(second_user, tx[t].user_id)
           THEN Refuse(t, HTTP_400_BAD_REQUEST, "Cannot add yourself as second party")
           ELSE tx' = [tx EXCEPT ![t] = [@ EXCEPT !.pc = "found"]]
        /\ UNCHANGED <<parties, contract, events, now, last, settings>>

\* lines 511-530: flush the INSERT of the second party row, insert the event
AddInsert(t) ==
    LET su == CHOOSE u \in UserByEmail(tx[t].email) : TRUE
        second_party == [user_id |-> su, role |-> SECOND_PARTY,
                         approval_status |-> PENDING, approved_at |-> None, id |-> t]
    IN  /\ tx[t].pc = "found"
        /\ \A o \in TxIds \ {t} :
              tx[o].pc = "inserted" => UniqueOk({tx[o].wparty}, second_party)
        /\ IF ~UniqueOk(parties, second_party)
           THEN Refuse(t, "500", "IntegrityError")
           ELSE tx' = [tx EXCEPT ![t] = [@ EXCEPT !.pc = "inserted",
                         !.wparty = second_party,
                         !.wevents = log_event(<<>>, "second_party_added",
                                        <<"Second party added: ", DisplayName(su)>>,
                                        Some(tx[t].user_id),
                                        Some(<<Email(su), FullName(su)>>))]]
        /\ UNCHANGED <<parties, contract, events, now, last, settings>>

\* get_db, line 26: the handler returned, the session commits
AddCommit(t) ==
    /\ tx[t].pc = "inserted"
    /\ parties' = parties \cup {tx[t].wparty}
    /\ events' = events \o tx[t].wevents
    /\ tx' = [tx EXCEPT ![t] = [@ EXCEPT !.pc = "done", !.status_code = HTTP_200_OK]]
    /\ UNCHANGED <<contract, now, last, settings>>

NextAdd ==
    \E t \in TxIds :
        \/ AddBegin(t)
        \/ AddLookup(t)
        \/ AddInsert(t)
        \/ AddCommit(t)

SpecAdd == InitAdd /\ [][NextAdd]_vars

(* ------------------------------------------------------------------ *)
(* Analysis pipeline: ContractService.analyze_and_save and the stages   *)
(* of contract_manager.py                                               *)
(* ------------------------------------------------------------------ *)
\* models.contract.RiskSeverity and RiskScore
RiskSeverity == {"high", "medium", "low"}
RiskScore == {"high", "medium", "low", "safe"}

\* mutant of calculate_risk_score: the test for medium made before the test for high
calculate_risk_score_MediumFirst(risks) ==
    IF \E i \in 1..Len(risks) : risks[i].severity = "medium" THEN "medium"
    ELSE IF \E i \in 1..Len(risks) : risks[i].severity = "high" THEN "high"
    ELSE IF \E i \in 1..Len(risks) : risks[i].severity = "low" THEN "low"
    ELSE "safe"

calculate_risk_score(risks) ==
    IF \E i \in 1..Len(risks) : risks[i].severity = "high" THEN "high"
    ELSE IF \E i \in 1..Len(risks) : risks[i].severity = "medium" THEN "medium"
    ELSE IF \E i \in 1..Len(risks) : risks[i].severity = "low" THEN "low"
    ELSE "safe"

\* all lists of at most n elements of S
ListsUpTo(S, n) == UNION {[1..k -> S] : k \in 0..n}

\* a risk entry as model_c_detect_risks returns it
RiskEntry(clause_id, severity) == [clause_id |-> clause_id, severity |-> severity]

\* _determine_language
determine_language(translations) ==
    IF translations.hindi # <<>> \/ translations.bengali # <<>>
    THEN "english_complex" ELSE "english"

\* what extract_text_from_pdf gives: no text, some text, or an exception
ExtractOutcomes == {"", "text", "PdfReadError"}

\* messages of the exceptions the stages catch
StageErrors == {"rate limited", "bad json"}

\* a clause as model_a_simplify returns it
ClauseEntry(clause_id) ==
    [clause_id |-> clause_id, original_text |-> "o", simplified_text |-> "s"]
\* ModelAOutput
ModelAOutcomes ==
    {[success |-> FALSE, clauses |-> <<>>, error |-> Some(e)] : e \in StageErrors}
    \cup {[success |-> TRUE, clauses |-> cl, error |-> None] :
             cl \in {<<>>, <<ClauseEntry(1)>>, <<ClauseEntry(1), ClauseEntry(2)>>}}

\* a translation as model_b_translate returns it
TranslationEntry(clause_id) == [clause_id |-> clause_id, translated_text |-> "t"]
\* ModelBOutput: clause 3 is a clause stage 1 never returns
ModelBOutcomes ==
    {[success |-> FALSE, translations |-> [hindi |-> <<>>, bengali |-> <<>>],
      error |-> Some("rate limited")]}
    \cup {[success |-> TRUE, translations |-> tr, error |-> None] :
             tr \in {[hindi |-> <<>>, bengali |-> <<>>],
                     [hindi |-> <<TranslationEntry(1)>>,
                      bengali |-> <<TranslationEntry(1), TranslationEntry(3)>>]}}

\* severities the detector may answer with: RiskSeverity and one outside it
ReturnedSeverities == RiskSeverity \cup {"critical"}
\* ModelCOutput
ModelCOutcomes ==
    {[success |-> FALSE, risks |-> <<>>, summary |-> "", error |-> Some("rate limited")]}
    \cup {[success |-> TRUE, risks |-> rs, summary |-> "summary", error |-> None] :
             rs \in ListsUpTo({RiskEntry(c, v) : c \in {1, 3}, v \in ReturnedSeverities},
                              MaxRisks)}

\* models.contract.ContractCategory
ContractCategory == {"employment", "rental", "nda", "service", "sales", "partnership",
                     "loan", "insurance", "other"}

\* contract_manager.py line 240
valid_categories == {"employment", "rental", "nda", "service", "sales", "partnership",
                     "loan", "insurance", "other"}

\* a key of the JSON object the model answers with: absent, null or a string
Absent == [present |-> FALSE, value |-> None]
Null == [present |-> TRUE, value |-> None]
Str(v) == [present |-> TRUE, value |-> Some(v)]

\* what client.call and json.loads give extract_metadata: an exception, or
\* an object with or without a category
MetadataReplies ==
    {[raised |-> TRUE, category |-> Absent, expiry_date |-> Absent],
     [raised |-> FALSE, category |-> Str("nda"), expiry_date |-> Str("2030-12-31")],
     [raised |-> FALSE, category |-> Str("NDA"), expiry_date |-> Str("2030-12-31")],
     [raised |-> FALSE, category |-> Str("lease"), expiry_date |-> Str("31/12/2030")],
     [raised |-> FALSE, category |-> Null, expiry_date |-> Null],
     [raised |-> FALSE, category |-> Absent, expiry_date |-> Null]}

\* no answer yet
NoMetadataReply == [raised |-> FALSE, category |-> Absent, expiry_date |-> Absent]

\* str.lower on the strings of MetadataReplies
lower(str) == IF str = "NDA" THEN "nda" ELSE str

\* dict.get(key, default)
get(entry, default) == IF entry.present THEN entry.value ELSE default

\* contract_manager.py lines 235-254: None has no lower(), and the
\* AttributeError is caught like every other exception
extract_metadata(reply) ==
    IF reply.raised
    THEN [success |-> FALSE, category |-> None, expiry_date |-> None,
          error |-> Some("rate limited")]
    ELSE LET category == get(reply.category, Some("other"))
         IN  IF category = None
             THEN [success |-> FALSE, category |-> None, expiry_date |-> None,
                   error |-> Some("'NoneType' object has no attribute 'lower'")]
             ELSE [success |-> TRUE,
                   category |-> IF lower(category[1]) \notin valid_categories
                                THEN Some("other") ELSE Some(lower(category[1])),
                   expiry_date |-> get(reply.expiry_date, None),
                   error |-> None]

\* MetadataOutput
MetadataOutcomes == {extract_metadata(reply) : reply \in MetadataReplies}

\* lines 145-152
parse_category(metadata_result) ==
    IF metadata_result.success /\ metadata_result.category # None
    THEN IF metadata_result.category[1] \in ContractCategory
         THEN metadata_result.category ELSE Some("other")
    ELSE None

\* datetime.strptime(s, "%Y-%m-%d") succeeds
IsIsoDate(str) == str \in {"2030-12-31"}

\* lines 153-157
parse_expiry_date(metadata_result) ==
    IF metadata_result.success /\ metadata_result.expiry_date # None
    THEN IF IsIsoDate(metadata_result.expiry_date[1])
         THEN metadata_result.expiry_date ELSE None
    ELSE None

\* mutant of TranslationsOf: the test of line 199 left out
TranslationsOf_AnyClause(translations, clause_id) ==
    LET Row(lang, t) == [language |-> lang, translated_text |-> t.translated_text]
    IN  [i \in 1..Len(translations.hindi) |-> Row("hindi", translations.hindi[i])]
        \o [i \in 1..Len(translations.bengali) |-> Row("bengali", translations.bengali[i])]

\* lines 196-205: the Translation rows of one clause, hindi before bengali
TranslationsOf(translations, clause_id) ==
    LET Matches(t) == t.clause_id = clause_id
        Row(lang, t) == [language |-> lang, translated_text |-> t.translated_text]
        hindi == SelectSeq(translations.hindi, Matches)
        bengali == SelectSeq(translations.bengali, Matches)
    IN  [i \in 1..Len(hindi) |-> Row("hindi", hindi[i])]
        \o [i \in 1..Len(bengali) |-> Row("bengali", bengali[i])]

\* lines 208-217: the Risk rows of one clause, up to the first entry whose
\* severity RiskSeverity(...) refuses
RECURSIVE RisksOf(_, _)
RisksOf(risks, clause_id) ==
    IF risks = <<>> THEN [rows |-> <<>>, raised |-> FALSE]
    ELSE LET r == Head(risks)
         IN  IF r.clause_id # clause_id THEN RisksOf(Tail(risks), clause_id)
             ELSE IF r.severity \notin RiskSeverity
             THEN [rows |-> <<>>, raised |-> TRUE]
             ELSE LET rest == RisksOf(Tail(risks), clause_id)
                  IN  [rows |-> <<[severity |-> r.severity]>> \o rest.rows,
                       raised |-> rest.raised]

\* lines 185-217: the Clause rows added to the session, each with its
\* translations and risks, up to the clause at which a ValueError is raised
RECURSIVE AddClauses(_, _, _)
AddClauses(clauses, translations, risks) ==
    IF clauses = <<>> THEN [rows |-> <<>>, raised |-> FALSE]
    ELSE LET clause_data == Head(clauses)
             rs == RisksOf(risks, clause_data.clause_id)
             clause == [clause_index |-> clause_data.clause_id,
                        original_text |-> clause_data.original_text,
                        simplified_text |-> clause_data.simplified_text,
                        translations |-> TranslationsOf(translations, clause_data.clause_id),
                        risks |-> rs.rows]
         IN  IF rs.raised THEN [rows |-> <<clause>>, raised |-> TRUE]
             ELSE LET rest == AddClauses(Tail(clauses), translations, risks)
                  IN  [rows |-> <<clause>> \o rest.rows, raised |-> rest.raised]

\* mutant of analysis_events: the two events written in the other order
analysis_events_Swapped(es, user_id, filename, clauses, risks, risk_score) ==
    log_event(log_event(es, "ai_analysis_completed",
                        <<"AI simplification & risk scan completed">>, Some(user_id),
                        Some(<<Len(clauses), Len(risks), risk_score>>)),
              "document_uploaded", <<"Document uploaded">>, Some(user_id),
              Some(<<filename>>))

\* lines 222-242: the two events of an upload
analysis_events(es, user_id, filename, clauses, risks, risk_score) ==
    log_event(log_event(es, "document_uploaded", <<"Document uploaded">>, Some(user_id),
                        Some(<<filename>>)),
              "ai_analysis_completed", <<"AI simplification & risk scan completed">>,
              Some(user_id), Some(<<Len(clauses), Len(risks), risk_score>>))

\* ContractAnalysisResponse of a failed run
FailureResponse(error) ==
    [success |-> FALSE, contract_id |-> "", clauses |-> <<>>,
     translations |-> [hindi |-> <<>>, bengali |-> <<>>], risks |-> <<>>,
     risk_summary |-> "", error |-> error]

\* no response yet
NoResponse ==
    [success |-> FALSE, contract_id |-> "none", clauses |-> <<>>,
     translations |-> [hindi |-> <<>>, bengali |-> <<>>], risks |-> <<>>,
     risk_summary |-> "", error |-> None]

\* a future of the executor: not submitted, running, or done with its result
NotSubmitted(placeholder) == [state |-> "none", result |-> placeholder]
Running(future) == [future EXCEPT !.state = "running"]
Finished(result) == [state |-> "done", result |-> result]

\* the upload request before it starts
IdleUpload ==
    [pc |-> "start", contract_text |-> "",
     model_a_result |-> [success |-> FALSE, clauses |-> <<>>, error |-> None],
     future_b |-> NotSubmitted([success |-> FALSE,
                                translations |-> [hindi |-> <<>>, bengali |-> <<>>],
                                error |-> None]),
     future_c |-> NotSubmitted([success |-> FALSE, risks |-> <<>>, summary |-> "",
                                error |-> None]),
     future_meta |-> NotSubmitted([success |-> FALSE, category |-> None,
                                   expiry_date |-> None, error |-> None]),
     metadata_reply |-> NoMetadataReply,
     risk_score |-> "", detected_language |-> "", contract_category |-> None,
     expiry_date |-> None, session |-> Db({}, NoContract, <<>>), exception |-> "",
     response |-> NoResponse]

\* mutant of NoText: the empty text is passed on to stage 1
NoText_Never(contract_text) == FALSE

\* line 105
NoText(contract_text) == contract_text = ""

\* mutant of StageOneFailed: the result of stage 1 is not looked at
StageOneFailed_Never(model_a_result) == FALSE

\* line 119
StageOneFailed(model_a_result) == ~model_a_result.success

\* mutant of ResultReady: result() returns without waiting
ResultReady_NoWait(future) == TRUE

\* Future.result() returns once the call has finished
ResultReady(future) == future.state = "done"

(* ------------------------------------------------------------------ *)
(* SpecPipe: one upload request.  tx is the request: the position of    *)
(* analyze_and_save, its locals, the three futures of the executor and  *)
(* the session with its uncommitted rows; parties, contract and events  *)
(* are what is committed.                                               *)
(* ------------------------------------------------------------------ *)
InitPipe ==
    /\ parties = {}
    /\ contract = NoContract
    /\ events = <<>>
    /\ now = 0
    /\ settings \in Configs
    /\ last = Call("", "", "", FALSE, Return(Db({}, NoContract, <<>>), 0),
                   Db({}, NoContract, <<>>), NoPrior)
    /\ tx = IdleUpload

Unsaved == UNCHANGED <<parties, contract, events, now, last, settings>>

\* lines 102-114
ExtractText ==
    \E text \in ExtractOutcomes :
        /\ tx.pc = "start"
        /\ tx' = IF text = "PdfReadError"
                 THEN [tx EXCEPT !.pc = "raised", !.exception = text]
                 ELSE IF NoText(text)
                 THEN [tx EXCEPT !.pc = "returned", !.contract_text = text,
                          !.response = FailureResponse(Some("Could not extract text from PDF"))]
                 ELSE [tx EXCEPT !.pc = "extracted", !.contract_text = text]
        /\ Unsaved

\* lines 116-128
Simplify ==
    \E result \in ModelAOutcomes :
        /\ tx.pc = "extracted"
        /\ tx' = IF StageOneFailed(result)
                 THEN [tx EXCEPT !.pc = "returned", !.model_a_result = result,
                                 !.response = FailureResponse(result.error)]
                 ELSE [tx EXCEPT !.pc = "simplified", !.model_a_result = result]
        /\ Unsaved

\* lines 132-134: the three submissions, in this order
SubmitB ==
    /\ tx.pc = "simplified"
    /\ tx' = [tx EXCEPT !.pc = "submitted_b", !.future_b = Running(@)]
    /\ Unsaved
SubmitC ==
    /\ tx.pc = "submitted_b"
    /\ tx' = [tx EXCEPT !.pc = "submitted_c", !.future_c = Running(@)]
    /\ Unsaved
SubmitMeta ==
    /\ tx.pc = "submitted_c"
    /\ tx' = [tx EXCEPT !.pc = "submitted_meta", !.future_meta = Running(@)]
    /\ Unsaved

\* the worker threads: each call ends with its output, failed or not
RunTranslate ==
    \E result \in ModelBOutcomes :
        /\ tx.future_b.state = "running"
        /\ tx' = [tx EXCEPT !.future_b = Finished(result)]
        /\ Unsaved
RunDetectRisks ==
    \E result \in ModelCOutcomes :
        /\ tx.future_c.state = "running"
        /\ tx' = [tx EXCEPT !.future_c = Finished(result)]
        /\ Unsaved
RunExtractMetadata ==
    \E reply \in MetadataReplies :
        /\ tx.future_meta.state = "running"
        /\ tx' = [tx EXCEPT !.metadata_reply = reply,
                            !.future_meta = Finished(extract_metadata(reply))]
        /\ Unsaved

\* lines 136-138: the three result() calls, in this order
ResultB ==
    /\ tx.pc = "submitted_meta" /\ ResultReady(tx.future_b)
    /\ tx' = [tx EXCEPT !.pc = "got_b"]
    /\ Unsaved
ResultC ==
    /\ tx.pc = "got_b" /\ ResultReady(tx.future_c)
    /\ tx' = [tx EXCEPT !.pc = "got_c"]
    /\ Unsaved
ResultMeta ==
    /\ tx.pc = "got_c" /\ ResultReady(tx.future_meta)
    /\ tx' = [tx EXCEPT !.pc = "got_meta"]
    /\ Unsaved

\* lines 140-157: the derived fields
Join ==
    /\ tx.pc = "got_meta"
    /\ tx' = [tx EXCEPT !.pc = "joined",
                 !.risk_score = calculate_risk_score(tx.future_c.result.risks),
                 !.detected_language = determine_language(tx.future_b.result.translations),
                 !.contract_category = parse_category(tx.future_meta.result),
                 !.expiry_date = parse_expiry_date(tx.future_meta.result)]
    /\ Unsaved

\* lines 160-170: the Contract row of the upload
NewContract(t) ==
    [status |-> PENDING_REVIEW, blockchain_hash |-> None, blockchain_tx_hash |-> None,
     finalized_at |-> None, overall_risk_score |-> t.risk_score,
     detected_language |-> t.detected_language,
     risk_summary |-> t.future_c.result.summary, category |-> t.contract_category,
     expiry_date |-> t.expiry_date, clauses |-> <<>>]

\* mutant of column_default: the INSERT writes the NULL it is given
column_default_Null(value, default) == value

\* models/contract.py lines 77-79: the INSERT of a row whose attribute is
\* None takes the default of the column
column_default(value, default) == IF value = None THEN Some(default) ELSE value

\* the Contract row as the flush of line 171 inserts it
Inserted(row) == [row EXCEPT !.category = column_default(@, "other")]

\* lines 159-182: add the Contract row and the uploader's first_party row;
\* the flush of line 182 may fail
AddContract ==
    \E flushed \in BOOLEAN :
        /\ tx.pc = "joined"
        /\ tx' = IF flushed
                 THEN [tx EXCEPT !.pc = "contract_added",
                          !.session = Db({[user_id |-> Owner, role |-> FIRST_PARTY,
                                           approval_status |-> PENDING,
                                           approved_at |-> None]},
                                         Inserted(NewContract(tx)), <<>>)]
                 ELSE [tx EXCEPT !.pc = "raised", !.exception = "DBAPIError",
                          !.session = Db({}, NewContract(tx), <<>>)]
        /\ Unsaved

\* lines 184-220: the clauses with their translations and risks; an entry
\* RiskSeverity refuses raises ValueError, the flush of line 219 may fail
PersistClauses ==
    \E flushed \in BOOLEAN :
        LET added == AddClauses(tx.model_a_result.clauses,
                                tx.future_b.result.translations,
                                tx.future_c.result.risks)
            session == [tx.session EXCEPT !.contract.clauses = added.rows]
        IN  /\ tx.pc = "contract_added"
            /\ tx' = IF added.raised
                     THEN [tx EXCEPT !.pc = "raised", !.exception = "ValueError",
                                     !.session = session]
                     ELSE IF ~flushed
                     THEN [tx EXCEPT !.pc = "raised", !.exception = "DBAPIError",
                                     !.session = session]
                     ELSE [tx EXCEPT !.pc = "clauses_added", !.session = session]
            /\ Unsaved

\* lines 222-254: the two events, then the response
LogAndReturn ==
    /\ tx.pc = "clauses_added"
    /\ tx' = [tx EXCEPT !.pc = "returned",
                 !.session.events =
                     analysis_events(@, Owner, Filename, tx.model_a_result.clauses,
                                     tx.future_c.result.risks, tx.risk_score),
                 !.response =
                     [success |-> TRUE, contract_id |-> ContractId,
                      clauses |-> tx.model_a_result.clauses,
                      translations |-> tx.future_b.result.translations,
                      risks |-> tx.future_c.result.risks,
                      risk_summary |-> tx.future_c.result.summary, error |-> None]]
    /\ UNCHANGED <<parties, contract, events, now, last, settings>>

\* get_db: commit when analyze_and_save returned, rollback when it raised
GetDb ==
    /\ tx.pc \in {"returned", "raised"}
    /\ Commit([status_code |-> IF tx.pc = "returned" THEN HTTP_200_OK ELSE "500",
               db |-> tx.session])
    /\ tx' = [tx EXCEPT !.pc = IF tx.pc = "returned" THEN "done" ELSE "failed"]
    /\ UNCHANGED <<now, last, settings>>

NextPipe ==
    \/ ExtractText
    \/ Simplify
    \/ SubmitB
    \/ SubmitC
    \/ SubmitMeta
    \/ RunTranslate
    \/ RunDetectRisks
    \/ RunExtractMetadata
    \/ ResultB
    \/ ResultC
    \/ ResultMeta
    \/ Join
    \/ AddContract
    \/ PersistClauses
    \/ LogAndReturn
    \/ GetDb

SpecPipe == InitPipe /\ [][NextPipe]_vars

(* ------------------------------------------------------------------ *)
(* SpecScore: _calculate_risk_score applied to a list of risks          *)
(* ------------------------------------------------------------------ *)
InitScore ==
    /\ parties = {}
    /\ contract = NoContract
    /\ events = <<>>
    /\ now = 0
    /\ settings \in Configs
    /\ last = Call("", "", "", FALSE, Return(Db({}, NoContract, <<>>), 0),
                   Db({}, NoContract, <<>>), NoPrior)
    /\ \E R \in ListsUpTo({RiskEntry(1, v) : v \in RiskSeverity}, MaxScored) :
          tx = [pc |-> "risks", risks |-> R, risk_score |-> ""]

CalculateRiskScore ==
    /\ tx.pc = "risks"
    /\ tx' = [tx EXCEPT !.pc = "scored", !.risk_score = calculate_risk_score(tx.risks)]
    /\ UNCHANGED <<parties, contract, events, now, last, settings>>

NextScore == CalculateRiskScore

SpecScore == InitScore /\ [][NextScore]_vars

(* ------------------------------------------------------------------ *)
(* SpecChain: the set_approval request that completes both-approved,    *)
(* with store_hash_on_chain taken statement by statement.  tx is the    *)
(* request: its position, its session, and what it did with the ledger. *)
(* ------------------------------------------------------------------ *)
\* core.config.Settings
BLOCKCHAIN_MAX_RETRIES == 3
BLOCKCHAIN_RETRY_DELAY == 5

\* every deployment: each of the four settings present or not
AllConfigs == [BLOCKCHAIN_ENABLED : BOOLEAN, ETHEREUM_RPC_URL : {"", "rpc"},
               ETHEREUM_PRIVATE_KEY : {"", "key"},
               CONTRACT_REGISTRY_ADDRESS : {"", "addr"}]

\* exceptions the web3 calls may raise: the class and str(e)
NoError == [class |-> "", message |-> ""]
TransactionNotFound == [class |-> "TransactionNotFound", message |-> "not found"]
Web3Errors ==
    {TransactionNotFound,
     [class |-> "ContractLogicError", message |-> "execution reverted: Hash Already Stored"],
     [class |-> "ContractLogicError", message |-> "execution reverted: not owner"],
     [class |-> "ConnectionError", message |-> "connection refused"]}

\* line 198: "already stored" in error_msg.lower()
MentionsAlreadyStored(error_msg) ==
    error_msg \in {"execution reverted: Hash Already Stored"}

\* lines 196-206: what the except clauses return for an exception that
\* leaves the try block
except_result(e) ==
    IF e.class = "ContractLogicError"
    THEN IF MentionsAlreadyStored(e.message)
         THEN <<TRUE, None, "Hash already stored">>
         ELSE <<FALSE, None, e.message>>
    ELSE <<FALSE, None, e.message>>

\* mutant of receipt_result: the status of the receipt is not looked at
receipt_result_AnyStatus(status, tx_hash) == <<TRUE, Some(tx_hash), "">>

\* lines 183-188
receipt_result(status, tx_hash) ==
    IF status = 1 THEN <<TRUE, Some(tx_hash), "">>
    ELSE <<FALSE, None, "Transaction reverted">>

\* mutant of SleepsBeforeRetry: the delay is taken after the last attempt too
SleepsBeforeRetry_Always(attempt) == TRUE

\* line 190
SleepsBeforeRetry(attempt) == attempt < BLOCKCHAIN_MAX_RETRIES - 1

\* store_hash_on_chain was not called
NoResult == <<FALSE, None, "">>

\* lines 850-863: (document_hash, transaction_hash)
hash_and_receipt(document_hash, result) ==
    IF result[1] THEN <<document_hash, result[2]>> ELSE <<document_hash, None>>

\* the request before it starts
IdleChain ==
    [pc |-> "start", user_id |-> "", session |-> Db({}, NoContract, <<>>),
     document_hash |-> None, tx_hash |-> "", attempt |-> 0, calls |-> 0, sends |-> 0,
     waits |-> 0, not_found |-> 0, sleeps |-> 0, slept |-> 0, receipt |-> None,
     raised |-> NoError, result |-> NoResult, status_code |-> ""]

\* the invited contract after one of its two parties has approved
InitChain ==
    /\ settings \in AllConfigs
    /\ \E u \in {Owner, "u2"} :
          LET r == set_approval(InvitedDb, u, TRUE, 1, settings, NoReply)
          IN  /\ parties = r.db.parties
              /\ contract = r.db.contract
              /\ events = r.db.events
              /\ now = r.utc
              /\ last = Call("set_approval", u, "", TRUE, r, InvitedDb, NoPrior)
    /\ tx = IdleChain

Uncommitted == UNCHANGED <<parties, contract, events, last, settings>>

\* contract_service.py lines 621-653: the other party approves
ChainApprove ==
    \E p \in {q \in parties : q.approval_status = PENDING} :
        LET p2 == [p EXCEPT !.approval_status = Decision(TRUE),
                            !.approved_at = Some(now + 1)]
        IN  /\ tx.pc = "start"
            /\ tx' = [tx EXCEPT
                        !.pc = "approved", !.user_id = p.user_id,
                        !.session =
                            Db((parties \ {p}) \cup {p2}, contract,
                               log_event(events, ApprovalEventType(p.role, TRUE),
                                         <<IF p.role = FIRST_PARTY THEN "First party"
                                           ELSE "Second party", "approved">>,
                                         Some(p.user_id), None))]
            /\ now' = now + 1
            /\ Uncommitted

\* contract_service.py lines 694-724 and 831-847: both have approved; the
\* status is set, the hash computed, and the ledger called if configured
ChainHash ==
    /\ tx.pc = "approved"
    /\ BothApproved(PartyOfRole(tx.session.parties, FIRST_PARTY),
                    PartyOfRole(tx.session.parties, SECOND_PARTY))
    /\ tx' = [tx EXCEPT
                !.session.contract.status = APPROVED,
                !.document_hash =
                    Some(generate_document_hash(PdfData, ContractId, HashMetadata)),
                !.pc = IF is_enabled(settings) THEN "submit" ELSE "answered",
                !.calls = IF is_enabled(settings) THEN @ + 1 ELSE @]
    /\ UNCHANGED now
    /\ Uncommitted

\* blockchain_service.py lines 144-174: build, sign and send the
\* transaction; any of these calls may raise
\* mutant of NextPass: a retry signs and sends the transaction again
NextPass_Resend == "submit"

\* lines 177-192: `continue` starts the next pass of the loop, whose first
\* statement is the wait of line 179; the send of line 174 is before the loop
NextPass == "wait"

ChainSubmit ==
    /\ tx.pc = "submit"
    /\ IF ~is_enabled(settings)
       THEN tx' = [tx EXCEPT !.pc = "answered",
                      !.result = <<FALSE, None, "Blockchain integration is disabled">>]
       ELSE \/ \E h \in TxHashes :
                  tx' = [tx EXCEPT !.pc = "wait", !.sends = @ + 1, !.tx_hash = h,
                                   !.attempt = 0]
            \/ \E e \in Web3Errors :
                  tx' = [tx EXCEPT !.pc = "answered", !.raised = e,
                                   !.result = except_result(e)]
    /\ UNCHANGED now
    /\ Uncommitted

\* blockchain_service.py lines 177-193: one pass of the loop
ChainWait ==
    /\ tx.pc = "wait"
    /\ tx.attempt < BLOCKCHAIN_MAX_RETRIES
    /\ \/ \E status \in {0, 1} :
             tx' = [tx EXCEPT !.pc = "answered", !.waits = @ + 1,
                              !.receipt = Some(status),
                              !.result = receipt_result(status, tx.tx_hash)]
       \/ \E e \in Web3Errors :
             tx' = IF e = TransactionNotFound
                   THEN IF SleepsBeforeRetry(tx.attempt)
                        THEN [tx EXCEPT !.pc = "sleep", !.waits = @ + 1,
                                        !.not_found = @ + 1]
                        ELSE [tx EXCEPT !.pc = NextPass, !.waits = @ + 1,
                                        !.not_found = @ + 1, !.attempt = @ + 1]
                   ELSE [tx EXCEPT !.pc = "answered", !.waits = @ + 1, !.raised = e,
                                   !.result = except_result(e)]
    /\ UNCHANGED now
    /\ Uncommitted

\* blockchain_service.py line 192: asyncio.sleep, then the next pass
ChainSleep ==
    /\ tx.pc = "sleep"
    /\ tx' = [tx EXCEPT !.pc = NextPass, !.sleeps = @ + 1,
                        !.slept = @ + BLOCKCHAIN_RETRY_DELAY, !.attempt = @ + 1]
    /\ now' = now + BLOCKCHAIN_RETRY_DELAY
    /\ Uncommitted

\* blockchain_service.py line 194: the loop ran out
ChainNotConfirmed ==
    /\ tx.pc = "wait"
    /\ ~(tx.attempt < BLOCKCHAIN_MAX_RETRIES)
    /\ tx' = [tx EXCEPT !.pc = "answered",
                        !.result = <<FALSE, None, "Transaction not confirmed in time">>]
    /\ UNCHANGED now
    /\ Uncommitted

\* contract_service.py lines 850-863 and 726-733
ChainStore ==
    LET h == hash_and_receipt(tx.document_hash[1], tx.result)
    IN  /\ tx.pc = "answered"
        /\ tx' = [tx EXCEPT !.pc = "finalized",
                            !.session.contract.blockchain_hash = Some(h[1]),
                            !.session.contract.blockchain_tx_hash = h[2],
                            !.session.contract.finalized_at = Some(now + 1)]
        /\ now' = now + 1
        /\ Uncommitted

\* contract_service.py lines 659-685
ChainLog ==
    /\ tx.pc = "finalized"
    /\ tx' = [tx EXCEPT !.pc = "returned", !.status_code = HTTP_200_OK,
                        !.session.events = LogFinalization(tx.session)]
    /\ UNCHANGED now
    /\ Uncommitted

\* get_db
ChainCommit ==
    /\ tx.pc = "returned"
    /\ Commit([status_code |-> tx.status_code, db |-> tx.session])
    /\ tx' = [tx EXCEPT !.pc = "done"]
    /\ UNCHANGED <<now, last, settings>>

NextChain ==
    \/ ChainApprove
    \/ ChainHash
    \/ ChainSubmit
    \/ ChainWait
    \/ ChainSleep
    \/ ChainNotConfirmed
    \/ ChainStore
    \/ ChainLog
    \/ ChainCommit

SpecChain == InitChain /\ [][NextChain]_vars

\* every statement of the request is eventually executed: the web3 calls
\* return or raise (wait_for_transaction_receipt has a timeout of 60 s) and
\* asyncio.sleep ends
SpecChainLive == SpecChain /\ WF_vars(NextChain)

(* ------------------------------------------------------------------ *)
(* SpecTrail: the requests that write, read or delete the audit trail   *)
(* of one contract, one after another.  tx holds the created_at column  *)
(* of contract_events, row by row, and the response of the latest       *)
(* get_audit_trail.                                                     *)
(* ------------------------------------------------------------------ *)
\* the uploaded contract with its clause, the clause's translation and risk
TrailContract ==
    [clauses |-> AddClauses(<<ClauseEntry(1)>>,
                            [hindi |-> <<TranslationEntry(1)>>, bengali |-> <<>>],
                            <<RiskEntry(1, "high")>>).rows]
    @@ UploadedContract

Languages == {"hindi", "bengali"}

\* lines 914-929; the INSERT fails on the foreign key of contract_id when
\* the contract does not exist
log_translation_viewed(db, user_id, language, t) ==
    IF db.contract = NoContract
    THEN Raise("500", "IntegrityError", db, t)
    ELSE Return(Db(db.parties, db.contract,
                   log_event(db.events, "translation_viewed",
                             <<"User viewed", language, "translation">>,
                             Some(user_id), Some(<<language>>))), t)

\* mutant of OwnerMayDelete: any party of the contract may delete it
OwnerMayDelete_AnyParty(party) == party # {}

\* line 420: the caller holds the first_party record
OwnerMayDelete(party) == party # {} /\ \A p \in party : p.role = FIRST_PARTY

\* models/contract.py lines 89-99 and 119-124: db.delete(contract) deletes
\* the contract with its clauses (and their translations and risks), its
\* party records and its events
cascade_delete(db) == Db({}, NoContract, <<>>)

\* contract_service.py lines 412-431; the router answers False with 404
delete_contract(db, user_id, t) ==
    LET party == get_user_party(db.parties, user_id)
    IN  IF ~OwnerMayDelete(party)
        THEN Raise(HTTP_404_NOT_FOUND, "Contract not found", db, t)
        ELSE IF db.contract = NoContract
        THEN Raise(HTTP_404_NOT_FOUND, "Contract not found", db, t)
        ELSE Return(cascade_delete(db), t)

\* the rows of contract_events with their created_at
EventRows(es, created_at) ==
    [i \in 1..Len(es) |-> [event |-> es[i], created_at |-> created_at[i]]]

\* ORDER BY created_at ASC
RECURSIVE order_by_created_at(_)
order_by_created_at(rows) ==
    IF rows = <<>> THEN <<>>
    ELSE LET ordered == order_by_created_at(SubSeq(rows, 1, Len(rows) - 1))
             row == rows[Len(rows)]
             k == Cardinality({i \in 1..Len(ordered) :
                                  ordered[i].created_at <= row.created_at})
         IN  SubSeq(ordered, 1, k) \o <<row>> \o SubSeq(ordered, k + 1, Len(ordered))

\* ContractEventResponse
EventResponse(row) ==
    [event_type |-> row.event.event_type, description |-> row.event.description,
     event_metadata |-> row.event.event_metadata,
     user_name |-> IF row.event.user_id = None THEN None
                   ELSE Some(FullName(row.event.user_id[1])),
     created_at |-> row.created_at]

\* mutant of MayViewTrail: the trail is shown to every signed-in user
MayViewTrail_Anyone(party) == TRUE

\* line 874
MayViewTrail(party) == party # {}

\* no audit trail was asked for
NoTrail == [status_code |-> "", detail |-> "", events |-> <<>>,
            blockchain_hash |-> None, blockchain_tx_hash |-> None]

\* lines 865-912
get_audit_trail(db, created_at, user_id) ==
    IF ~MayViewTrail(get_user_party(db.parties, user_id))
    THEN [status_code |-> HTTP_403_FORBIDDEN,
          detail |-> "Not authorized to view this contract", events |-> <<>>,
          blockchain_hash |-> None, blockchain_tx_hash |-> None]
    ELSE LET rows == order_by_created_at(EventRows(db.events, created_at))
         IN  [status_code |-> HTTP_200_OK, detail |-> "",
              events |-> [i \in 1..Len(rows) |-> EventResponse(rows[i])],
              blockchain_hash |-> db.contract.blockchain_hash,
              blockchain_tx_hash |-> db.contract.blockchain_tx_hash]

InitTrail ==
    /\ parties = UploadedParties
    /\ contract = TrailContract
    /\ events = UploadedEvents
    /\ now = 2
    /\ settings \in Configs
    /\ last = Call("analyze_and_save", Owner, "", FALSE,
                   Return(Db({}, NoContract, <<>>), 0), Db({}, NoContract, <<>>), NoPrior)
    /\ tx = [created_at |-> <<1, 2>>, response |-> NoTrail]

\* the handler may run while the trail has room for the events of one call
TrailRoom == Len(events) + 3 <= MaxTrail

\* the rows get_db commits for the answer r: created_at is the clock at the
\* flush that inserts the row
Written(r) == IF r.status_code = HTTP_200_OK /\ Len(r.db.events) > Len(events)
              THEN Len(r.db.events) - Len(events) ELSE 0
CommitTrail(r) ==
    /\ Commit(r)
    /\ now' = r.utc + Written(r)
    /\ tx' = [created_at |->
                 IF r.status_code = HTTP_200_OK
                 THEN [i \in 1..Len(r.db.events) |->
                          IF i <= Len(events) THEN tx.created_at[i]
                          ELSE r.utc + (i - Len(events))]
                 ELSE tx.created_at,
              response |-> NoTrail]
    /\ UNCHANGED settings

TrailAddSecondParty ==
    \E u \in Users, e \in Emails :
        LET r == add_second_party(Current, u, e, now)
        IN  /\ TrailRoom
            /\ CommitTrail(r)
            /\ last' = Call("add_second_party", u, e, FALSE, r, Current, NoPrior)

TrailSetApproval ==
    \E u \in Users, a \in BOOLEAN :
      \E reply \in RepliesTo(Current, u, a, settings) :
        LET r == set_approval(Current, u, a, now, settings, reply)
        IN  /\ TrailRoom
            /\ CommitTrail(r)
            /\ last' = Call("set_approval", u, "", a, r, Current, NoPrior)

TrailRemoveSecondParty ==
    \E u \in Users :
        LET r == remove_second_party(Current, u, now)
        IN  /\ TrailRoom
            /\ CommitTrail(r)
            /\ last' = Call("remove_second_party", u, "", FALSE, r, Current, NoPrior)

LogTranslationViewed ==
    \E u \in Users, language \in Languages :
        LET r == log_translation_viewed(Current, u, language, now)
        IN  /\ TrailRoom
            /\ CommitTrail(r)
            /\ last' = Call("log_translation_viewed", u, language, FALSE, r, Current,
                            NoPrior)

GetAuditTrail ==
    \E u \in Users :
        LET r == get_audit_trail(Current, tx.created_at, u)
        IN  /\ tx' = [tx EXCEPT !.response = r]
            /\ last' = Call("get_audit_trail", u, "", FALSE, r, Current, NoPrior)
            /\ UNCHANGED <<parties, contract, events, now, settings>>

DeleteContract ==
    \E u \in Users :
        LET r == delete_contract(Current, u, now)
        IN  /\ CommitTrail(r)
            /\ last' = Call("delete_contract", u, "", FALSE, r, Current, NoPrior)

NextTrail ==
    \/ TrailAddSecondParty
    \/ TrailSetApproval
    \/ TrailRemoveSecondParty
    \/ LogTranslationViewed
    \/ GetAuditTrail
    \/ DeleteContract

SpecTrail == InitTrail /\ [][NextTrail]_vars

(* ------------------------------------------------------------------ *)
(* SpecLife: the life of one contract between upload and approval       *)
(* ------------------------------------------------------------------ *)
\* events the trail may hold while the callers still choose freely
MaxLife == 10

\* the contract row with the two columns update_contract_details assigns
LifeContract == UploadedContract @@ [category |-> "other", expiry_date |-> None]

\* query parameters of PATCH /contracts/{contract_id}: each may be omitted
CategoryParams == {None, Some("nda")}
ExpiryParams == {None, Some("2030-12-31")}

\* contract_service.py lines 931-968 (the response is built after the commit)
update_contract_details(db, user_id, category, expiry_date, t) ==
    LET party == get_user_party(db.parties, user_id)
    IN  IF party = {} \/ \E p \in party : p.role # FIRST_PARTY
        THEN Raise(HTTP_403_FORBIDDEN, "Only the contract owner can update details", db, t)
        ELSE IF db.contract = NoContract
        THEN Raise(HTTP_404_NOT_FOUND, "Contract not found", db, t)
        ELSE Return(Db(db.parties,
                       [db.contract EXCEPT
                           !.category = IF category # None THEN category[1] ELSE @,
                           !.expiry_date = IF expiry_date # None THEN expiry_date ELSE @],
                       db.events), t)

\* the request just answered
Answer(op, user_id, r) == [op |-> op, user_id |-> user_id, status_code |-> r.status_code]

CommitLife(op, user_id, r) ==
    /\ Commit(r)
    /\ now' = r.utc
    /\ last' = Answer(op, user_id, r)
    /\ UNCHANGED <<settings, tx>>

\* the handler may run while the trail has room for the events of one call
LifeRoom == Len(events) + 3 <= MaxLife

InitLife ==
    /\ parties = UploadedParties
    /\ contract = LifeContract
    /\ events = UploadedEvents
    /\ now = 0
    /\ settings \in Configs
    /\ last = Answer("analyze_and_save", Owner, Return(Db({}, NoContract, <<>>), 0))
    /\ tx = [mode |-> "any"]

LifeAddSecondParty ==
    \E u \in Users, e \in Emails :
        /\ LifeRoom
        /\ CommitLife("add_second_party", u, add_second_party(Current, u, e, now))

LifeSetApproval ==
    \E u \in Users, a \in BOOLEAN :
      \E reply \in RepliesTo(Current, u, a, settings) :
        /\ LifeRoom
        /\ CommitLife("set_approval", u, set_approval(Current, u, a, now, settings, reply))

LifeRemoveSecondParty ==
    \E u \in Users :
        /\ LifeRoom
        /\ CommitLife("remove_second_party", u, remove_second_party(Current, u, now))

UpdateContractDetails ==
    \E u \in Users, category \in CategoryParams, expiry_date \in ExpiryParams :
        CommitLife("update_contract_details", u,
                   update_contract_details(Current, u, category, expiry_date, now))

NextLife ==
    \/ LifeAddSecondParty
    \/ LifeSetApproval
    \/ LifeRemoveSecondParty
    \/ UpdateContractDetails

SpecLife == InitLife /\ [][NextLife]_vars

(* ------------------------------------------------------------------ *)
(* SpecResolve: callers who work towards approval                       *)
(* ------------------------------------------------------------------ *)
\* events the trail may hold while the callers still choose freely
MaxFree == 6

\* the second party, and the parties that have not answered
Invited == PartyOfRole(parties, SECOND_PARTY)
Undecided == {p \in parties : p.approval_status = PENDING}

\* The callers either choose freely ("any") or work towards approval
\* ("resolve"): the owner takes the second party off a rejected contract,
\* invites a second party when there is none, and a party that has not
\* answered approves.
Cooperates(op, user_id, email, approved) ==
    IF contract.status = APPROVED THEN FALSE
    ELSE IF contract.status = REJECTED \/ (Invited # {} /\ Undecided = {})
    THEN op = "remove_second_party" /\ user_id = Owner
    ELSE IF Invited = {}
    THEN op = "add_second_party" /\ user_id = Owner /\ email = Email("u2")
    ELSE /\ op = "set_approval" /\ approved
         /\ \E p \in Undecided : p.user_id = user_id

\* what the mode in force lets a caller do
Allowed(op, user_id, email, approved) ==
    IF tx.mode = "any" THEN Len(events) < MaxFree
    ELSE Cooperates(op, user_id, email, approved)

InitResolve ==
    /\ parties = UploadedParties
    /\ contract = UploadedContract
    /\ events = UploadedEvents
    /\ now = 0
    /\ settings \in Configs
    /\ last = Answer("analyze_and_save", Owner, Return(Db({}, NoContract, <<>>), 0))
    /\ tx = [mode |-> "any"]

ResolveAddSecondParty ==
    \E u \in Users, e \in Emails :
        /\ Allowed("add_second_party", u, e, FALSE)
        /\ CommitLife("add_second_party", u, add_second_party(Current, u, e, now))

ResolveSetApproval ==
    \E u \in Users, a \in BOOLEAN :
        /\ Allowed("set_approval", u, "", a)
        /\ \E reply \in RepliesTo(Current, u, a, settings) :
              CommitLife("set_approval", u,
                         set_approval(Current, u, a, now, settings, reply))

ResolveRemoveSecondParty ==
    \E u \in Users :
        /\ Allowed("remove_second_party", u, "", FALSE)
        /\ CommitLife("remove_second_party", u, remove_second_party(Current, u, now))

\* from here on the callers work towards approval
Cooperate ==
    /\ tx.mode = "any"
    /\ tx' = [tx EXCEPT !.mode = "resolve"]
    /\ UNCHANGED <<parties, contract, events, now, last, settings>>

\* a request of a cooperating caller
Resolving ==
    /\ tx.mode = "resolve"
    /\ \/ ResolveAddSecondParty
       \/ ResolveSetApproval
       \/ ResolveRemoveSecondParty

NextResolve ==
    \/ ResolveAddSecondParty
    \/ ResolveSetApproval
    \/ ResolveRemoveSecondParty
    \/ Cooperate

SpecResolve == InitResolve /\ [][NextResolve]_vars

\* every request of a cooperating caller is answered
SpecResolveLive == SpecResolve /\ WF_vars(Resolving)

(* ------------------------------------------------------------------ *)
(* Properties                                                           *)
(* ------------------------------------------------------------------ *)
Finalized == {"contract_finalized"}
Verified == {"blockchain_verified"}
ApprovalKinds == {"first_party_approved", "first_party_rejected",
                  "second_party_approved", "second_party_rejected"}

\* the events the request just served appended to the trail
Appended == SubSeq(events, Len(last.pre.events) + 1, Len(events))
IsPrefix(a, b) == Len(a) <= Len(b) /\ SubSeq(b, 1, Len(a)) = a

Succeeded == last.status_code = HTTP_200_OK
\* the caller's party record before the request
CallerBefore == {p \in last.pre.parties : p.user_id = last.user_id}
CallerNow == {p \in parties : p.user_id = last.user_id}
SecondBefore == {p \in last.pre.parties : p.role = SECOND_PARTY}
SecondNow == {p \in parties : p.role = SECOND_PARTY}
FirstNow == {p \in parties : p.role = FIRST_PARTY}

\* C1 as stated: whatever calls were made, the audit trail of the contract
\* holds at most one contract_finalized event.
C1_AtMostOneFinalizedEver == CountEvents(events, Finalized) <= 1

\* C1 amended: between two contract_finalized events of the trail there is a
\* second_party_removed event: the contract is finalized at most once per
\* approval round, and a round ends only with the removal of the second party.
C1_OneFinalizationPerRound ==
    \A i \in 1..Len(events), j \in 1..Len(events) :
        (i < j /\ events[i].event_type = "contract_finalized"
               /\ events[j].event_type = "contract_finalized")
        => \E k \in (i + 1)..(j - 1) : events[k].event_type = "second_party_removed"

\* a contract finalized in two rounds
C1_Witness == CountEvents(events, Finalized) = 2

\* the second party's set_approval(true) that directly follows the first
\* party's successful set_approval(true) made while both were pending
BothApproveInTurn ==
    /\ last.op = "set_approval" /\ last.approved
    /\ \E p \in CallerBefore : p.role = SECOND_PARTY
    /\ last.prior.approved /\ last.prior.all_pending
    /\ \E p \in last.pre.parties : p.role = FIRST_PARTY /\ p.user_id = last.prior.user_id

\* C2 as stated: first party approves, then second party approves: status
\* APPROVED, the trail holds exactly one contract_finalized and exactly one
\* blockchain_verified event, blockchain_hash is set.
C2_TrailHoldsExactlyOne ==
    BothApproveInTurn =>
        /\ Succeeded
        /\ contract.status = APPROVED
        /\ CountEvents(events, Finalized) = 1
        /\ CountEvents(events, Verified) = 1
        /\ contract.blockchain_hash # None

\* C2 amended: first party approves, then second party approves: status
\* APPROVED, blockchain_hash is set, and the second call adds exactly one
\* contract_finalized and exactly one blockchain_verified event to the trail
\* (which so holds one more of each than before the two calls).
C2_ApproveApproveFinalizes ==
    BothApproveInTurn =>
        /\ Succeeded
        /\ contract.status = APPROVED
        /\ CountEvents(Appended, Finalized) = 1
        /\ CountEvents(Appended, Verified) = 1
        /\ CountEvents(events, Finalized) = CountEvents(last.pre.events, Finalized) + 1
        /\ CountEvents(events, Verified) = CountEvents(last.pre.events, Verified) + 1
        /\ contract.blockchain_hash # None

C2_Witness == BothApproveInTurn /\ CountEvents(events, Finalized) = 1

\* C5: a set_approval that directly follows the same caller's successful
\* set_approval fails with 400 "already submitted" whatever the two booleans
\* are, and leaves parties, contract and trail as they were; the first of the
\* two, made by a party that is pending, succeeds.
C5_SecondSubmissionRefused ==
    last.op = "set_approval" =>
        /\ (\E p \in CallerBefore : p.approval_status = PENDING) => Succeeded
        /\ (last.prior # NoPrior /\ last.prior.user_id = last.user_id) =>
              /\ last.status_code = HTTP_400_BAD_REQUEST
              /\ last.detail = "You have already submitted your approval"
              /\ Current = last.pre

\* approve, then try to reject: refused
C5_Witness ==
    /\ last.op = "set_approval" /\ ~last.approved
    /\ last.prior.user_id = last.user_id /\ last.prior.approved
    /\ last.status_code = HTTP_400_BAD_REQUEST

\* the event kind that belongs to a role and a decision
KindFor(role, approved) ==
    CHOOSE k \in ApprovalKinds :
        /\ (role = FIRST_PARTY) =
              (k \in {"first_party_approved", "first_party_rejected"})
        /\ approved = (k \in {"first_party_approved", "second_party_approved"})

\* C6: set_approval succeeds exactly when the caller holds a party record
\* that is pending; it then sets that record to approved or rejected as the
\* boolean says and appends exactly one of the four approval events, the one
\* of the caller's role and decision, in the caller's name.
C6_SetApprovalContract ==
    last.op = "set_approval" =>
        /\ Succeeded <=> \E p \in CallerBefore : p.approval_status = PENDING
        /\ Succeeded =>
              \E p \in CallerBefore, q \in CallerNow :
                  /\ q.role = p.role
                  /\ q.approval_status = (IF last.approved THEN APPROVED ELSE REJECTED)
                  /\ q.approved_at # None
                  /\ CountEvents(Appended, ApprovalKinds) = 1
                  /\ Appended[1].event_type = KindFor(p.role, last.approved)
                  /\ Appended[1].user_id = Some(last.user_id)
                  /\ IsPrefix(last.pre.events, events)

\* the second party rejects
C6_Witness ==
    /\ last.op = "set_approval" /\ Succeeded /\ ~last.approved
    /\ \E p \in CallerNow : p.role = SECOND_PARTY /\ p.approval_status = REJECTED

\* C7: whenever a second party exists and a party has rejected, the persisted
\* contract status is REJECTED.
C7_RejectionIsPersisted ==
    (SecondNow # {} /\ \E p \in parties : p.approval_status = REJECTED)
        => contract.status = REJECTED

\* C8: a successful remove_second_party on a contract that was APPROVED or
\* REJECTED leaves status PENDING_REVIEW, no second party, and the first party
\* pending without approval timestamp: no party is left decided.
C8_RemovalResets ==
    (last.op = "remove_second_party" /\ Succeeded
       /\ last.pre.contract.status \in {APPROVED, REJECTED}) =>
        /\ contract.status = PENDING_REVIEW
        /\ SecondNow = {}
        /\ FirstNow # {}
        /\ \A p \in parties : p.approval_status = PENDING /\ p.approved_at = None

\* the second party of a rejected contract is removed
C8_Witness ==
    /\ last.op = "remove_second_party" /\ Succeeded
    /\ last.pre.contract.status = REJECTED
    /\ \E p \in last.pre.parties : p.role = FIRST_PARTY /\ p.approval_status = REJECTED

\* C9: add_second_party succeeds exactly when the caller is the first party,
\* there is no second party, the e-mail is a known user's and that user is
\* not the caller; it then adds one pending second_party record for that user
\* and one second_party_added event; otherwise it ends in a client error.
C9_AddSecondPartyContract ==
    last.op = "add_second_party" =>
        /\ Succeeded <=>
              /\ \E p \in CallerBefore : p.role = FIRST_PARTY
              /\ SecondBefore = {}
              /\ \E u \in Users : Email(u) = last.email /\ u # last.user_id
        /\ Succeeded =>
              /\ \E u \in Users :
                    /\ Email(u) = last.email
                    /\ parties = last.pre.parties \cup
                                   {[user_id |-> u, role |-> SECOND_PARTY,
                                     approval_status |-> PENDING, approved_at |-> None]}
              /\ Cardinality(parties) = Cardinality(last.pre.parties) + 1
              /\ Len(Appended) = 1
              /\ Appended[1].event_type = "second_party_added"
              /\ IsPrefix(last.pre.events, events)
              /\ contract = last.pre.contract
        /\ ~Succeeded => last.status_code \in ClientErrors /\ Current = last.pre

\* a second party has just been added
C9_Witness ==
    /\ last.op = "add_second_party" /\ Succeeded
    /\ SecondNow # {} /\ SecondBefore = {}

\* C10: remove_second_party succeeds exactly when the caller is the first
\* party and a second party exists; it then deletes that record and appends
\* one second_party_removed event; a call by anyone else, or with no second
\* party, ends in a client error.
C10_RemoveSecondPartyContract ==
    last.op = "remove_second_party" =>
        /\ Succeeded <=>
              /\ \E p \in CallerBefore : p.role = FIRST_PARTY
              /\ SecondBefore # {}
        /\ Succeeded =>
              /\ SecondNow = {}
              /\ {p.user_id : p \in parties} = {p.user_id : p \in last.pre.parties \ SecondBefore}
              /\ Len(Appended) = 1
              /\ Appended[1].event_type = "second_party_removed"
              /\ IsPrefix(last.pre.events, events)
        /\ ~Succeeded => last.status_code \in ClientErrors /\ Current = last.pre

\* the second party has just been removed
C10_Witness ==
    /\ last.op = "remove_second_party" /\ Succeeded
    /\ SecondBefore # {} /\ SecondNow = {}

\* the cases in which the three endpoints refuse, read off the state before
\* the request: wrong role or not a party, a second party already there, an
\* e-mail of no user, the caller's own e-mail, no second party to remove, a
\* decision already submitted
Refusable ==
    \/ /\ last.op = "add_second_party"
       /\ \/ ~\E p \in CallerBefore : p.role = FIRST_PARTY
          \/ SecondBefore # {}
          \/ ~\E u \in Users : Email(u) = last.email
          \/ Email(last.user_id) = last.email
    \/ /\ last.op = "remove_second_party"
       /\ \/ ~\E p \in CallerBefore : p.role = FIRST_PARTY
          \/ SecondBefore = {}
    \/ /\ last.op = "set_approval"
       /\ \/ CallerBefore = {}
          \/ \E p \in CallerBefore : p.approval_status # PENDING

\* C11: a call of add_second_party, remove_second_party or set_approval made
\* in one of the refusal cases ends in a client error, and every call that
\* does not succeed leaves the party records, the contract (status, hash,
\* transaction hash, finalization time) and the audit trail as they were.
C11_FailedCallsChangeNothing ==
    last.op \in {"add_second_party", "remove_second_party", "set_approval"} =>
        /\ Refusable => last.status_code \in ClientErrors
        /\ ~Succeeded =>
              /\ parties = last.pre.parties
              /\ contract = last.pre.contract
              /\ events = last.pre.events

\* a second invitation is refused on a contract that carries a hash
C11_Witness ==
    /\ last.op = "add_second_party"
    /\ last.status_code = HTTP_400_BAD_REQUEST
    /\ last.detail = "Contract already has a second party"
    /\ contract.blockchain_hash # None
    /\ Current = last.pre

\* C12: whatever add_second_party requests run, one after another or at the
\* same time, the committed party records of the contract hold at most one
\* first_party row, at most one second_party row, and at most one row per user.
C12_OneRecordPerRoleAndUser ==
    /\ Cardinality(PartyOfRole(parties, FIRST_PARTY)) <= 1
    /\ Cardinality(PartyOfRole(parties, SECOND_PARTY)) <= 1
    /\ \A p \in parties, q \in parties : p.user_id = q.user_id => p = q

\* two requests passed every check at the same time: one committed its row,
\* the INSERT of the other failed on the unique constraint
C12_Witness ==
    \E t1 \in TxIds, t2 \in TxIds :
        /\ tx[t1].pc = "done" /\ tx[t1].status_code = HTTP_200_OK
        /\ tx[t2].pc = "done" /\ tx[t2].detail = "IntegrityError"
        /\ Cardinality(PartyOfRole(parties, SECOND_PARTY)) = 1

\* high > medium > low > safe
Rank(v) == IF v = "high" THEN 3 ELSE IF v = "medium" THEN 2 ELSE IF v = "low" THEN 1 ELSE 0
\* the greatest rank among the severities of a list, 0 for the empty list
RECURSIVE MaxRank(_)
MaxRank(R) ==
    IF R = <<>> THEN 0
    ELSE LET m == MaxRank(Tail(R))
             h == Rank(Head(R).severity)
         IN  IF h > m THEN h ELSE m

\* C19: for every list R of risks with severities among high, medium, low,
\* _calculate_risk_score(R) is the severity of greatest rank in R under
\* high > medium > low > safe, and safe when R is empty.
C19_ScoreIsMaxSeverity ==
    tx.pc = "scored" =>
        /\ tx.risk_score \in RiskScore
        /\ Rank(tx.risk_score) = MaxRank(tx.risks)
        /\ tx.risks = <<>> => tx.risk_score = "safe"

\* a list that holds a high risk after a medium and a low one
C19_Witness ==
    /\ tx.pc = "scored"
    /\ Len(tx.risks) = 3
    /\ tx.risks[1].severity = "medium" /\ tx.risks[2].severity = "low"
    /\ tx.risks[3].severity = "high"
    /\ tx.risk_score = "high"

\* the upload of SpecPipe: nothing of it is committed, nothing is in its session
NothingPersisted == parties = {} /\ contract = NoContract /\ events = <<>>
EmptySession == tx.session = Db({}, NoContract, <<>>)
Futures == {tx.future_b, tx.future_c, tx.future_meta}
NoStageStarted == \A f \in Futures : f.state = "none"
AllStagesDone == \A f \in Futures : f.state = "done"
SimplifyCalled == tx.model_a_result # IdleUpload.model_a_result

\* C13: when stage 1 fails with message E the run ends with success=false
\* and error=E, translate, detect-risks and extract-metadata are never
\* started, and no contract, party, clause or event is added to the session
\* or committed.
C13_SimplifyFailureAborts ==
    (SimplifyCalled /\ ~tx.model_a_result.success) =>
        /\ tx.pc \in {"returned", "done"}
        /\ tx.response = FailureResponse(tx.model_a_result.error)
        /\ ~tx.response.success /\ tx.response.error \in {Some(e) : e \in StageErrors}
        /\ NoStageStarted
        /\ EmptySession
        /\ NothingPersisted

\* simplify failed with "rate limited" and the request is over
C13_Witness ==
    /\ tx.pc = "done"
    /\ tx.model_a_result.error = Some("rate limited")
    /\ tx.response.error = Some("rate limited")

\* C14: when extraction gives the empty text the run ends at once with a
\* failure result: simplify is not called, no concurrent stage is started,
\* nothing is added to the session or committed.
C14_EmptyTextAborts ==
    (tx.pc # "start" /\ tx.exception # "PdfReadError" /\ tx.contract_text = "") =>
        /\ tx.pc \in {"returned", "done"}
        /\ ~tx.response.success
        /\ tx.response.error = Some("Could not extract text from PDF")
        /\ ~SimplifyCalled
        /\ NoStageStarted
        /\ EmptySession
        /\ NothingPersisted

\* the request with no extractable text is over
C14_Witness ==
    /\ tx.pc = "done" /\ tx.contract_text = "" /\ ~tx.response.success
    /\ tx.response.error # None

\* C15: once extraction and stage 1 have succeeded, whichever of the three
\* concurrent stages fail, all three run to completion, the run returns
\* success=true and the contract is committed with the clauses of stage 1
\* (the database itself not failing); a result with success=false comes only
\* from a failed extraction or a failed stage 1.
C15_StageFailuresNeverFailTheRun ==
    /\ (tx.pc \in {"done", "failed"} /\ tx.model_a_result.success
          /\ tx.exception # "DBAPIError") =>
            /\ AllStagesDone
            /\ tx.pc = "done" /\ tx.response.success
            /\ contract # NoContract
            /\ Len(contract.clauses) = Len(tx.model_a_result.clauses)
    /\ (tx.pc = "done" /\ ~tx.response.success) =>
            (tx.contract_text = "" \/ ~tx.model_a_result.success)

\* C16: a concurrent stage is started only after stage 1 has returned with
\* success, and the join (derived fields, rows of the session, commit) has
\* begun only when all three concurrent stages have finished, failed or not.
C16_TwoPhaseBarrier ==
    /\ ~NoStageStarted =>
          /\ SimplifyCalled /\ tx.model_a_result.success
          /\ tx.pc \notin {"start", "extracted"}
    /\ (tx.risk_score # "" \/ ~EmptySession \/ ~NothingPersisted
          \/ tx.pc \in {"joined", "contract_added", "clauses_added"}) => AllStagesDone

\* the join has begun after translate failed and detect-risks succeeded
C16_Witness ==
    /\ tx.pc = "joined"
    /\ ~tx.future_b.result.success /\ tx.future_c.result.success
    /\ AllStagesDone

\* the clause_index values of the persisted clauses, in order
ClauseIndexes(clauses) == [i \in 1..Len(clauses) |-> clauses[i].clause_index]
ClauseIds(clauses) == [i \in 1..Len(clauses) |-> clauses[i].clause_id]

\* C17: a run that returned success=true holds in its session, and after the
\* commit the database holds, all at once: the contract with status
\* PENDING_REVIEW, the uploader's pending first_party record and no other,
\* the clauses of stage 1, and the two events document_uploaded and
\* ai_analysis_completed in this order, the second with the number of
\* clauses, the number of returned risks and the stored risk score.
C17_SuccessPersistsTheUpload ==
    /\ ~NothingPersisted => tx.pc = "done" /\ tx.response.success
    /\ (tx.pc \in {"returned", "done"} /\ tx.response.success) =>
          LET db == IF tx.pc = "done" THEN Current ELSE tx.session
          IN  /\ db = tx.session
              /\ db.contract.status = PENDING_REVIEW
              /\ db.parties = {[user_id |-> Owner, role |-> FIRST_PARTY,
                                approval_status |-> PENDING, approved_at |-> None]}
              /\ ClauseIndexes(db.contract.clauses) = ClauseIds(tx.model_a_result.clauses)
              /\ Len(db.events) = 2
              /\ db.events[1].event_type = "document_uploaded"
              /\ db.events[2].event_type = "ai_analysis_completed"
              /\ db.events[2].event_metadata =
                    Some(<<Len(db.contract.clauses), Len(tx.future_c.result.risks),
                           db.contract.overall_risk_score>>)

\* two clauses and a high risk on one of them are committed
C17_Witness ==
    /\ tx.pc = "done" /\ tx.response.success
    /\ contract # NoContract
    /\ Len(contract.clauses) = 2
    /\ contract.overall_risk_score = "high"
    /\ Len(contract.clauses[1].risks) = 1
    /\ Len(events) = 2

\* C18: when analyze_and_save raises after the Contract row was added (a
\* flush fails, or a returned risk has a severity outside high/medium/low)
\* nothing of the upload is committed, then or later.
C18_FailureRollsBack ==
    tx.exception # "" => NothingPersisted

\* a severity outside the enum raised after a clause was added; the
\* request is over
C18_Witness ==
    /\ tx.pc = "failed" /\ tx.exception = "ValueError"
    /\ tx.session.contract # NoContract
    /\ Len(tx.session.contract.clauses) >= 1
    /\ NothingPersisted

\* the Risk rows under the clauses of a contract
RECURSIVE PersistedRisks(_)
PersistedRisks(clauses) ==
    IF clauses = <<>> THEN <<>> ELSE Head(clauses).risks \o PersistedRisks(Tail(clauses))

\* C20: the overall risk score stored with a committed contract is the
\* greatest severity among the Risk rows committed under its clauses, safe
\* when there are none.
C20_StoredScoreIsMaxOfRiskRows ==
    contract # NoContract =>
        Rank(contract.overall_risk_score) = MaxRank(PersistedRisks(contract.clauses))

\* the entries of a returned list that carry the given clause_id
EntriesFor(entries, clause_id) ==
    LET Carries(e) == e.clause_id = clause_id
    IN  SelectSeq(entries, Carries)

\* the run has added every clause to its session without raising
ClausesJoined ==
    \/ tx.pc = "clauses_added"
    \/ tx.pc \in {"returned", "done"} /\ tx.response.success

\* C21: in a run whose join completes, each persisted clause holds one
\* Translation row per returned hindi and bengali entry carrying its
\* clause_id and one Risk row per returned risk carrying it, so an entry
\* whose clause_id is no stage-1 clause_id has no row; a ValueError in the
\* join comes from an entry that matches a clause, never from an unmatched
\* one, and a run whose matched risks all have a severity of the enum does
\* not fail (the database itself not failing).
C21_JoinMatchesOnClauseId ==
    LET tr == tx.future_b.result.translations
        rs == tx.future_c.result.risks
        ids == {tx.model_a_result.clauses[k].clause_id :
                    k \in 1..Len(tx.model_a_result.clauses)}
        Matched(i) == rs[i].clause_id \in ids
        db == IF tx.pc = "done" THEN Current ELSE tx.session
    IN  /\ ClausesJoined =>
              /\ \A k \in 1..Len(db.contract.clauses) :
                    LET c == db.contract.clauses[k]
                        h == EntriesFor(tr.hindi, c.clause_index)
                        b == EntriesFor(tr.bengali, c.clause_index)
                        r == EntriesFor(rs, c.clause_index)
                    IN  /\ c.clause_index \in ids
                        /\ [i \in 1..Len(c.translations) |-> c.translations[i].language]
                              = [i \in 1..Len(h) |-> "hindi"] \o [i \in 1..Len(b) |-> "bengali"]
                        /\ [i \in 1..Len(c.risks) |-> c.risks[i].severity]
                              = [i \in 1..Len(r) |-> r[i].severity]
              /\ Len(PersistedRisks(db.contract.clauses))
                    = Cardinality({i \in 1..Len(rs) : Matched(i)})
        /\ tx.exception = "ValueError" =>
              \E i \in 1..Len(rs) : Matched(i) /\ rs[i].severity \notin RiskSeverity
        /\ (/\ tx.pc \in {"done", "failed"} /\ tx.model_a_result.success
            /\ tx.exception # "DBAPIError"
            /\ \A i \in 1..Len(rs) : Matched(i) => rs[i].severity \in RiskSeverity) =>
              tx.pc = "done" /\ tx.response.success

\* committed: clause 1 with its risk and its two translations, while a
\* risk with a severity outside the enum and a translation, both for a
\* clause 3 that stage 1 never returned, left no row
C21_Witness ==
    /\ tx.pc = "done" /\ tx.response.success
    /\ ClauseIds(tx.model_a_result.clauses) = <<1>>
    /\ tx.future_c.result.risks = <<RiskEntry(1, "low"), RiskEntry(3, "critical")>>
    /\ Len(tx.future_b.result.translations.bengali) = 2
    /\ Len(contract.clauses) = 1
    /\ Len(contract.clauses[1].risks) = 1
    /\ Len(contract.clauses[1].translations) = 2

\* the request of SpecChain: it has returned; what it holds, committed or not
ChainReturned == tx.pc \in {"returned", "done"}
ChainDb == IF tx.pc = "done" THEN Current ELSE tx.session
\* the ledger confirmed the transaction
LedgerConfirmed == tx.receipt = Some(1)
\* the ledger answered that the hash is already recorded
LedgerAlreadyStored ==
    tx.raised.class = "ContractLogicError" /\ MentionsAlreadyStored(tx.raised.message)
\* the events the request has added to the trail it started from
ChainAdded == SubSeq(ChainDb.events, Len(InvitedDb.events) + 2, Len(ChainDb.events))
EventTypes(es) == [i \in 1..Len(es) |-> es[i].event_type]

\* C22: whatever the ledger does with the submission (confirmed, reverted,
\* never found, a contract error, already stored, a connection error), the
\* set_approval call that completes both-approved returns 200 and commits
\* the contract with status APPROVED and blockchain_hash set; unless the
\* ledger confirmed the transaction, blockchain_tx_hash is null.
C22_FinalizationSurvivesTheLedger ==
    /\ tx.pc \notin {"raised", "failed"}
    /\ ChainReturned =>
          /\ tx.status_code = HTTP_200_OK
          /\ ChainDb.contract.status = APPROVED
          /\ ChainDb.contract.blockchain_hash # None
          /\ ChainDb.contract.finalized_at # None
          /\ ~LedgerConfirmed => ChainDb.contract.blockchain_tx_hash = None
          /\ LedgerConfirmed => ChainDb.contract.blockchain_tx_hash = Some(tx.tx_hash)

\* the transaction was sent and reverted, and the contract is committed
\* as APPROVED with its hash and no transaction hash
C22_Witness ==
    /\ tx.pc = "done" /\ tx.sends = 1 /\ tx.receipt = Some(0)
    /\ contract.status = APPROVED
    /\ contract.blockchain_hash # None
    /\ contract.blockchain_tx_hash = None

\* the retry loop of store_hash_on_chain: at most BLOCKCHAIN_MAX_RETRIES
\* waits, each wait after the first preceded by a transaction-not-found,
\* the fixed delay after each of these but the last
BoundedRetry ==
    /\ tx.waits <= BLOCKCHAIN_MAX_RETRIES
    /\ tx.waits <= tx.not_found + 1
    /\ tx.sleeps <= BLOCKCHAIN_MAX_RETRIES - 1
    /\ tx.sleeps <= tx.not_found
    /\ tx.slept = tx.sleeps * BLOCKCHAIN_RETRY_DELAY
    /\ tx.pc = "wait" => tx.waits = tx.attempt /\ tx.not_found = tx.attempt
    /\ (tx.pc = "wait" /\ tx.attempt < BLOCKCHAIN_MAX_RETRIES) => tx.sleeps = tx.attempt
    /\ tx.not_found = BLOCKCHAIN_MAX_RETRIES => tx.sleeps = BLOCKCHAIN_MAX_RETRIES - 1
\* the call has ended when all attempts are used
AttemptsUsed ==
    (tx.pc \notin {"wait", "sleep"} /\ tx.not_found = BLOCKCHAIN_MAX_RETRIES) =>
        tx.result = <<FALSE, None, "Transaction not confirmed in time">>
\* an exception other than the transaction-not-found of the loop has ended the call
EndedByError == tx.raised # NoError
\* ... at once: no wait and no sleep after the one that raised
EndedAtOnce ==
    /\ tx.pc \notin {"submit", "wait", "sleep"}
    /\ tx.waits \in {0, tx.not_found + 1}
    /\ tx.sleeps = tx.not_found
    /\ tx.result[2] = None

\* C23 as stated: every exception other than the transaction-not-found of
\* the loop ends store_hash_on_chain with failure.
C23_OtherErrorsFail ==
    EndedByError => EndedAtOnce /\ ~tx.result[1]

\* C23: store_hash_on_chain always returns.  It waits for the receipt at
\* most BLOCKCHAIN_MAX_RETRIES times, waits again only after a
\* transaction-not-found, sleeps BLOCKCHAIN_RETRY_DELAY after each of these
\* but the last, and returns failure "Transaction not confirmed in time"
\* when all attempts are used.  Any other exception ends it at once with no
\* transaction hash: with failure, except that a ContractLogicError whose
\* message contains "already stored" ends it with success.
C23_RetryIsBounded ==
    /\ [](/\ BoundedRetry
          /\ AttemptsUsed
          /\ EndedByError => EndedAtOnce /\ (tx.result[1] <=> LedgerAlreadyStored))
    /\ (tx.pc = "submit") ~> (tx.pc = "answered")

\* all attempts ended with transaction-not-found: three waits, two sleeps
C23_Witness ==
    /\ tx.pc = "answered"
    /\ tx.waits = BLOCKCHAIN_MAX_RETRIES /\ tx.not_found = BLOCKCHAIN_MAX_RETRIES
    /\ tx.sleeps = BLOCKCHAIN_MAX_RETRIES - 1
    /\ tx.result = <<FALSE, None, "Transaction not confirmed in time">>

\* C27: the finalizing set_approval call returns only after the hash has
\* been computed and store_hash_on_chain, if it was called, has answered;
\* it adds to the trail, in this order, the caller's approved event,
\* contract_finalized and blockchain_verified; and contract_finalized is
\* never in the trail of a session whose contract has no blockchain_hash.
C27_AttestationBeforeReturn ==
    /\ ChainReturned =>
          /\ tx.document_hash # None
          /\ ChainDb.contract.blockchain_hash = tx.document_hash
          /\ tx.calls > 0 => tx.result # NoResult
          /\ Len(ChainAdded) = 3
          /\ ChainAdded[1].event_type \in {"first_party_approved", "second_party_approved"}
          /\ ChainAdded[1].user_id = Some(tx.user_id)
          /\ EventTypes(SubSeq(ChainAdded, 2, 3)) = <<"contract_finalized", "blockchain_verified">>
    /\ tx.pc = "finalized" => tx.session.contract.blockchain_hash # None
    /\ (tx.pc # "start" /\ "contract_finalized" \in {e.event_type : e \in {ChainAdded[i] : i \in 1..Len(ChainAdded)}}) =>
          /\ ChainDb.contract.blockchain_hash # None
          /\ tx.pc \in {"returned", "done"}

\* the second party's approval finalized the contract after two waits for
\* the receipt
C27_Witness ==
    /\ tx.pc = "done" /\ LedgerConfirmed /\ tx.waits = 2
    /\ tx.user_id = "u2"
    /\ EventTypes(ChainAdded)
         = <<"second_party_approved", "contract_finalized", "blockchain_verified">>
    /\ contract.blockchain_tx_hash = Some(tx.tx_hash)

\* C28: the blockchain_verified event of the finalizing call says "stored
\* on blockchain" exactly when the submission succeeded (the ledger
\* confirmed the transaction or answered that the hash is already stored),
\* and says "blockchain pending" otherwise.
C28_VerifiedEventTellsTheOutcome ==
    ChainReturned =>
        LET e == ChainDb.events[Len(ChainDb.events)]
        IN  /\ e.event_type = "blockchain_verified"
            /\ IF LedgerConfirmed \/ LedgerAlreadyStored
               THEN e.description = <<"Contract hash stored on blockchain">>
               ELSE e.description = <<"Contract hash generated (blockchain pending)">>

\* the four settings a ledger call needs
FullyConfigured ==
    /\ settings.BLOCKCHAIN_ENABLED
    /\ settings.ETHEREUM_RPC_URL # ""
    /\ settings.ETHEREUM_PRIVATE_KEY # ""
    /\ settings.CONTRACT_REGISTRY_ADDRESS # ""

\* C29: store_hash_on_chain is called, and a transaction sent, only when
\* the flag is set and endpoint, key and registry address are non-empty;
\* when one of them is missing the finalizing call makes no ledger call
\* and commits the hash with a null blockchain_tx_hash.
C29_LedgerOnlyWhenConfigured ==
    /\ (tx.calls > 0 \/ tx.sends > 0 \/ tx.waits > 0) => FullyConfigured
    /\ (tx.pc \notin {"start", "approved"} /\ FullyConfigured) => tx.calls = 1
    /\ (ChainReturned /\ ~FullyConfigured) =>
          /\ tx.calls = 0 /\ tx.result = NoResult
          /\ ChainDb.contract.blockchain_hash = tx.document_hash
          /\ tx.document_hash # None
          /\ ChainDb.contract.blockchain_tx_hash = None

\* flag, endpoint and key are set but the registry address is not: the
\* contract is committed as finalized and the ledger was never called
C29_Witness ==
    /\ tx.pc = "done" /\ tx.calls = 0
    /\ settings.BLOCKCHAIN_ENABLED
    /\ settings.ETHEREUM_RPC_URL # "" /\ settings.ETHEREUM_PRIVATE_KEY # ""
    /\ settings.CONTRACT_REGISTRY_ADDRESS = ""
    /\ contract.status = APPROVED /\ contract.blockchain_hash # None
    /\ contract.blockchain_tx_hash = None

\* C24: every request other than a successful delete_contract leaves the
\* events the contract had, with their created_at, as they were and in
\* their order: what it writes comes after them.
C24_TrailIsAppendOnly ==
    [][\/ last'.op = "delete_contract" /\ last'.status_code = HTTP_200_OK
       \/ /\ IsPrefix(events, events')
          /\ IsPrefix(tx.created_at, tx'.created_at)]_vars

\* a translation view was logged behind the events of an invitation and a
\* removal
C24_Witness ==
    /\ last.op = "log_translation_viewed" /\ last.status_code = HTTP_200_OK
    /\ Len(events) = Len(last.pre.events) + 1
    /\ EventTypes(last.pre.events) =
          <<"document_uploaded", "ai_analysis_completed", "second_party_added",
            "second_party_removed">>
    /\ IsPrefix(last.pre.events, events)

\* C25: get_audit_trail answers 200 exactly when the caller holds a party
\* record of the contract at the time of the call, and 403 without any
\* event otherwise; the answer then lists every event of the contract once,
\* in ascending order of created_at.
C25_TrailForPartiesOnly ==
    last.op = "get_audit_trail" =>
        LET holds == \E p \in parties : p.user_id = last.user_id
            r == tx.response
            table == {<<events[i], tx.created_at[i]>> : i \in 1..Len(events)}
            ToRow(e) == [event_type |-> e[1].event_type, created_at |-> e[2]]
            FromRow(e) == [event_type |-> e.event_type, created_at |-> e.created_at]
        IN  /\ Current = last.pre
            /\ r.status_code = last.status_code
            /\ holds <=> r.status_code = HTTP_200_OK
            /\ ~holds => r.status_code = HTTP_403_FORBIDDEN /\ r.events = <<>>
            /\ holds =>
                  /\ Len(r.events) = Len(events)
                  /\ {FromRow(r.events[i]) : i \in 1..Len(r.events)}
                       = {ToRow(e) : e \in table}
                  /\ \A i, j \in 1..Len(r.events) :
                        i < j => r.events[i].created_at < r.events[j].created_at

\* the second party that was invited and then removed asks for the trail
\* and is refused
C25_Witness ==
    /\ last.op = "get_audit_trail" /\ last.user_id = "u2"
    /\ last.status_code = HTTP_403_FORBIDDEN
    /\ \E i \in 1..Len(events) :
          /\ events[i].event_type = "second_party_removed"
          /\ \E j \in 1..(i - 1) : events[j].event_type = "second_party_added"
    /\ get_user_party(parties, "u2") = {}

\* C26: a delete_contract call by the holder of the first_party record
\* removes the contract with its clauses, translations and risks, its party
\* records and its events; a call by anyone else is answered with a failure
\* and changes nothing; and nothing but such a call by the first party
\* makes the contract disappear.
C26_OnlyFirstPartyDeletes ==
    [][LET caller == get_user_party(parties, last'.user_id)
           first == caller # {} /\ \A p \in caller : p.role = FIRST_PARTY
       IN  /\ (last'.op = "delete_contract" /\ first /\ contract # NoContract) =>
                 /\ last'.status_code = HTTP_200_OK
                 /\ contract' = NoContract /\ parties' = {} /\ events' = <<>>
                 /\ tx'.created_at = <<>>
           /\ (last'.op = "delete_contract" /\ ~first) =>
                 /\ last'.status_code \in ClientErrors
                 /\ UNCHANGED <<parties, contract, events>>
                 /\ tx'.created_at = tx.created_at
           /\ (contract # NoContract /\ contract' = NoContract) =>
                 last'.op = "delete_contract" /\ first]_vars

\* the owner deleted the finalized contract: its clause, both party records
\* and its seven events are gone
C26_Witness ==
    /\ last.op = "delete_contract" /\ last.user_id = Owner
    /\ last.status_code = HTTP_200_OK
    /\ last.pre.contract.status = APPROVED
    /\ Len(last.pre.contract.clauses) = 1
    /\ Len(last.pre.contract.clauses[1].risks) = 1
    /\ Cardinality(last.pre.parties) = 2
    /\ Len(last.pre.events) = 7
    /\ contract = NoContract /\ parties = {} /\ events = <<>>

\* the tag of the closed set a returned category stands for, if any
TagOf(entry) ==
    IF entry.present /\ entry.value # None
    THEN {tag \in ContractCategory : lower(entry.value[1]) = lower(tag)}
    ELSE {}

\* C30: whatever extract_metadata was answered, the contract of a
\* successful run is inserted and committed with a category of the nine
\* tags: the tag the answer names, upper or lower case, and "other" when
\* the answer names none of them, has a null or no category, or the stage
\* failed.
C30_CategoryIsAlwaysATag ==
    LET db == IF tx.pc = "done" THEN Current ELSE tx.session
        reply == tx.metadata_reply
        tags == IF reply.raised THEN {} ELSE TagOf(reply.category)
    IN  (tx.pc \in {"contract_added", "clauses_added"}
           \/ (tx.pc \in {"returned", "done"} /\ tx.response.success)) =>
            /\ db.contract.category # None
            /\ db.contract.category[1] \in ContractCategory
            /\ tags # {} => db.contract.category[1] \in tags
            /\ tags = {} => db.contract.category = Some("other")
            /\ ~tx.future_meta.result.success => db.contract.category = Some("other")

\* the answer had "category": null, the stage failed on it, and the
\* contract is committed with category other
C30_Witness ==
    /\ tx.pc = "done" /\ tx.response.success
    /\ tx.metadata_reply.category = Null
    /\ ~tx.future_meta.result.success
    /\ tx.contract_category = None
    /\ contract.category = Some("other")

\* C31: the content hash is a function of the document bytes, the contract
\* identity and the metadata map, whatever the order of the map's keys; so
\* blockchain_hash, once set, never changes, also when the contract is
\* finalized again after its second party was removed and replaced.
C31_HashIsStable ==
    [][/\ contract.blockchain_hash # None =>
            contract'.blockchain_hash = contract.blockchain_hash
       /\ contract'.blockchain_hash # None =>
            \A m \in MetadataOrders :
                contract'.blockchain_hash =
                    Some(generate_document_hash(PdfData, ContractId, sorted(m)))]_vars

\* a contract that already carries a hash is finalized again
C31_Witness ==
    /\ last.op = "set_approval" /\ Succeeded
    /\ last.pre.contract.status = PENDING_REVIEW
    /\ last.pre.contract.blockchain_hash # None
    /\ contract.status = APPROVED
    /\ contract.blockchain_hash = last.pre.contract.blockchain_hash

\* C37: an event is appended to the contract's audit trail only by a call
\* of an actor who holds a party record on the contract; this includes
\* log_translation_viewed.
C37_OnlyPartiesWriteTheTrail ==
    [][Len(events') > Len(events) =>
          \E p \in parties : p.user_id = last'.user_id]_vars

\* C40: within one call of store_hash_on_chain the hash is submitted to the
\* ledger at most once; the retry loop only waits again for the receipt of
\* the transaction already sent.
C40_OneSubmissionPerCall ==
    /\ tx.sends <= 1
    /\ tx.waits > 0 => tx.sends = 1

\* the receipt was waited for three times, after one submission
C40_Witness ==
    /\ tx.not_found = BLOCKCHAIN_MAX_RETRIES
    /\ tx.waits = BLOCKCHAIN_MAX_RETRIES
    /\ tx.sends = 1

\* C32: every existing contract has exactly one first_party record, that
\* of the uploading owner; no add_second_party, remove_second_party,
\* set_approval or update_contract_details call removes it or changes its
\* role or actor.
C32_OneFirstPartyTheOwner ==
    /\ {<<p.user_id, p.role>> : p \in {q \in parties : q.role = FIRST_PARTY}}
          = {<<Owner, FIRST_PARTY>>}
    /\ Cardinality({q \in parties : q.role = FIRST_PARTY}) = 1
    /\ \A p \in parties : p.user_id = Owner => p.role = FIRST_PARTY

\* the owner changed the details of a contract whose second party had
\* answered and was removed
C32_Witness ==
    /\ last.op = "update_contract_details" /\ last.status_code = HTTP_200_OK
    /\ contract.category = "nda"
    /\ CountEvents(events, {"second_party_removed"}) >= 1
    /\ CountEvents(events, {"second_party_approved", "second_party_rejected"}) >= 1

\* C38: no decision blocks approval for good: from every reachable state
\* with status PENDING_REVIEW some sequence of add_second_party,
\* remove_second_party and set_approval calls reaches APPROVED.
C38_ApprovalStaysReachable ==
    (tx.mode = "resolve" /\ contract.status = PENDING_REVIEW)
        ~> (contract.status = APPROVED)

\* the first party refused before a second party was invited, and the
\* contract is approved all the same
C38_Witness ==
    /\ contract.status = APPROVED
    /\ tx.mode = "resolve"
    /\ Len(events) >= 4
    /\ events[3].event_type = "first_party_rejected"
    /\ events[4].event_type = "second_party_added"

\* a decided contract: both parties have answered, or one has refused
Terminal == {APPROVED, REJECTED}

\* C33: once the persisted status is APPROVED or REJECTED no set_approval
\* call changes it; the only call that changes it is a successful
\* remove_second_party, and it sets the status to PENDING_REVIEW.
C33_TerminalStatusIsSticky ==
    [][(contract.status \in Terminal /\ contract'.status # contract.status) =>
          /\ last'.op = "remove_second_party"
          /\ last'.status_code = HTTP_200_OK
          /\ contract'.status = PENDING_REVIEW]_vars

\* a pending second party approves a contract the first party has rejected:
\* the call succeeds and the contract stays REJECTED
C33_Witness ==
    /\ last.op = "set_approval" /\ Succeeded /\ last.approved
    /\ last.pre.contract.status = REJECTED
    /\ contract.status = REJECTED

\* C34: in every state reached by sequential calls, status APPROVED implies
\* that a first and a second party exist, both approved, and that
\* blockchain_hash and finalized_at are set.
C34_ApprovedMeansBothApproved ==
    contract.status = APPROVED =>
        /\ FirstNow # {} /\ SecondNow # {}
        /\ \A p \in parties : p.approval_status = APPROVED
        /\ contract.blockchain_hash # None
        /\ contract.finalized_at # None

\* a contract that is approved for the second time, after its second party
\* had been removed
C34_Witness ==
    /\ contract.status = APPROVED
    /\ CountEvents(events, {"second_party_removed"}) >= 1
    /\ CountEvents(events, Finalized) >= 2

\* C35: while the status is PENDING_REVIEW or REJECTED, blockchain_hash,
\* blockchain_tx_hash and finalized_at are all null.
C35_FinalizationDataOnlyWhileFinalized ==
    contract.status \in {PENDING_REVIEW, REJECTED} =>
        /\ contract.blockchain_hash = None
        /\ contract.blockchain_tx_hash = None
        /\ contract.finalized_at = None

\* C36: once blockchain_tx_hash is set, no later call sets it to null or to
\* a different value.
C36_ReceiptIsKept ==
    [][contract.blockchain_tx_hash # None =>
          contract'.blockchain_tx_hash = contract.blockchain_tx_hash]_vars

\* C39: for every party record, approved_at is set exactly when the
\* approval status is approved or rejected.
C39_TimestampIffDecided ==
    \A p \in parties :
        (p.approved_at # None) <=> (p.approval_status \in {APPROVED, REJECTED})

\* the first party's decision has been withdrawn by the removal of the
\* second party from a decided contract, and a new second party has joined
C39_Witness ==
    /\ CountEvents(events, {"second_party_removed"}) >= 1
    /\ CountEvents(events, Finalized) >= 1
    /\ \E p \in FirstNow : p.approval_status = PENDING /\ p.approved_at = None
    /\ \E p \in SecondNow : p.approval_status = REJECTED /\ p.approved_at # None

\* the requests of SpecTx that have been answered
Done(t) == tx[t].pc = "done"
Approves(t, role) ==
    /\ Done(t) /\ tx[t].approved /\ tx[t].status_code = HTTP_200_OK
    /\ tx[t].party.role = role

\* C3: the first and the second party approve concurrently; once both
\* transactions have committed the contract is APPROVED, its hash is set and
\* the trail holds exactly one contract_finalized event.
C3_ConcurrentApprovalsFinalize ==
    \A t1 \in TxIds, t2 \in TxIds :
        (Approves(t1, FIRST_PARTY) /\ Approves(t2, SECOND_PARTY)) =>
            /\ contract.status = APPROVED
            /\ contract.blockchain_hash # None
            /\ CountEvents(events, Finalized) = 1

\* C4: of two concurrent set_approval requests of the same party, exactly one
\* succeeds and the other is answered 400 already submitted, and the trail
\* holds at most one approval or rejection event of that party.
C4_OneSubmissionWins ==
    \A t1 \in TxIds, t2 \in TxIds :
        (t1 # t2 /\ Done(t1) /\ Done(t2) /\ tx[t1].user_id = tx[t2].user_id
           /\ tx[t1].party # NoRow) =>
            /\ \/ tx[t1].status_code = HTTP_200_OK /\ tx[t2].status_code = HTTP_400_BAD_REQUEST
               \/ tx[t2].status_code = HTTP_200_OK /\ tx[t1].status_code = HTTP_400_BAD_REQUEST
            /\ CountEvents(events, {"first_party_approved", "first_party_rejected"}) <= 1
            /\ CountEvents(events, {"second_party_approved", "second_party_rejected"}) <= 1

====
